---------------------------- MODULE Spec2Model ----------------------------
(***************************************************************************)
(* Model of the transform subsystem of rt3 (src/core/geometry/transform):  *)
(* Transform2 / Transform3 (matrix + cached inverse), their constructors,  *)
(* composition (Mul), inverse(), and application to points and vectors,    *)
(* together with the Translation, Rotation and Scale value types that      *)
(* convert into them.                                                      *)
(*                                                                         *)
(* The scalar type T of the source is generic (tests use f32).  It is      *)
(* modelled by exact rational numbers <<n, d>> (d > 0, lowest terms), so   *)
(* that T::one() / det, l / x, ... are true divisions and "mat x mat_inv = *)
(* identity" is an equation TLC can refute.  sin, cos and sqrt are       *)
(* exact on the inputs the model draws (see Angle and Sqrt below).         *)
(***************************************************************************)
EXTENDS Integers, Sequences, FiniteSets, TLC

(***************************************************************************)
(* Bounds of the model.                                                    *)
(***************************************************************************)
\* Number of operations (constructor calls, compositions, applications) of one run.
MaxOps == 3
\* Coordinates of the points and vectors the transforms are applied to.
MaxCoord == 1

(***************************************************************************)
(* The scalar type T: exact rationals.                                     *)
(***************************************************************************)
Abs(n) == IF n < 0 THEN -n ELSE n

RECURSIVE GCD(_, _)
GCD(a, b) == IF b = 0 THEN a ELSE GCD(b, a % b)

\* The rational n/d in lowest terms with a positive denominator (d # 0).
Q(n, d) ==
    LET reduce(g, s) == << (s * n) \div g, (s * d) \div g >>
    IN  reduce(GCD(Abs(n), Abs(d)), IF d < 0 THEN -1 ELSE 1)

R(k) == << k, 1 >>

\* T::zero(), T::one()  (num.rs: blanket impls over num_traits)
Zero == R(0)
One == R(1)

\* NumOps on T: + - * / and unary minus.
RAdd(a, b) ==
    LET over(g) == Q(a[1] * (b[2] \div g) + b[1] * (a[2] \div g), (a[2] \div g) * b[2])
    IN  over(GCD(a[2], b[2]))
RNeg(a) == << -a[1], a[2] >>
RSub(a, b) == RAdd(a, RNeg(b))
RMul(a, b) ==
    LET cancel(g1, g2) == << (a[1] \div g1) * (b[1] \div g2), (a[2] \div g2) * (b[2] \div g1) >>
    IN  cancel(GCD(Abs(a[1]), b[2]), GCD(Abs(b[1]), a[2]))
RDiv(a, b) == RMul(a, Q(b[2], b[1]))
\* PartialOrd on T
RLt(a, b) == a[1] * b[2] < b[1] * a[2]
RLe(a, b) == a[1] * b[2] <= b[1] * a[2]
RGt(a, b) == RLt(b, a)

\* Products and sums written as the source writes them, left to right.
P2(a, b) == RMul(a, b)
P3(a, b, c) == RMul(RMul(a, b), c)
P4(a, b, c, d) == RMul(RMul(RMul(a, b), c), d)
RECURSIVE RSumRange(_, _, _)
RSumRange(s, lo, hi) ==
    IF lo = hi THEN s[lo]
    ELSE LET mid == (lo + hi) \div 2
         IN  RAdd(RSumRange(s, lo, mid), RSumRange(s, mid + 1, hi))
\* s[1] + s[2] + ... + s[n]; a subtracted term is given as RNeg(term).  Exact
\* addition is associative, so the sum is evaluated as a balanced tree.
RSum(s) == RSumRange(s, 1, Len(s))

(***************************************************************************)
(* sqrt (num_traits::real::Real), exact on squares of rationals.           *)
(***************************************************************************)
IsSquareInt(k) == \E s \in 0..k : s * s = k
ISqrt(k) == CHOOSE s \in 0..k : s * s = k
IsSquare(r) == r[1] >= 0 /\ IsSquareInt(r[1]) /\ IsSquareInt(r[2])
Sqrt(r) == << ISqrt(r[1]), ISqrt(r[2]) >>

(***************************************************************************)
(* Angle<T> (units.rs).  An angle is the pair <<a, b>> standing for        *)
(* a * (pi/2) + b * alpha radians, where cos(alpha) = 4/5, sin(alpha) =    *)
(* 3/5: on these angles sin and cos are rational, so Trig is exact.        *)
(***************************************************************************)
\* (c1 + i s1) * (c2 + i s2), a pair <<cos, sin>>
CisMul(p, q) == << RSub(RMul(p[1], q[1]), RMul(p[2], q[2])),
                   RAdd(RMul(p[1], q[2]), RMul(p[2], q[1])) >>
RECURSIVE CisPow(_, _)
CisPow(p, n) == IF n = 0 THEN << One, Zero >> ELSE CisMul(p, CisPow(p, n - 1))
Cis(theta) ==
    CisMul(CisPow(<< Zero, One >>, theta[1] % 4),
           IF theta[2] >= 0 THEN CisPow(<< Q(4, 5), Q(3, 5) >>, theta[2])
           ELSE CisPow(<< Q(4, 5), Q(-3, 5) >>, -theta[2]))
\* Trig::cos, Trig::sin on the radians of an angle
Cos(theta) == Cis(theta)[1]
Sin(theta) == Cis(theta)[2]
\* theta / two, for an angle whose two coefficients are even
AngleHalf(theta) == << theta[1] \div 2, theta[2] \div 2 >>

(***************************************************************************)
(* Option / Result / panic.                                                *)
(***************************************************************************)
None == [tag |-> "None"]
Some(v) == [tag |-> "Some", val |-> v]
Ok(v) == [tag |-> "Ok", val |-> v]
Err == [tag |-> "Err"]
\* Option::expect on None
Panic == [tag |-> "panic", msg |-> "the given transform is not invertible"]

(***************************************************************************)
(* Vector2 / Vector3 / Point2 / Point3 (vector.rs, point.rs): tuples of    *)
(* scalars <<x, y>> and <<x, y, z>>.                                       *)
(***************************************************************************)
Vector3_zero == << Zero, Zero, Zero >>
Vector2_zero == << Zero, Zero >>
Vector3_neg(v) == << RNeg(v[1]), RNeg(v[2]), RNeg(v[3]) >>
Vector3_add(v, w) == << RAdd(v[1], w[1]), RAdd(v[2], w[2]), RAdd(v[3], w[3]) >>
Vector3_mul(v, s) == << RMul(v[1], s), RMul(v[2], s), RMul(v[3], s) >>
Vector3_div(v, s) == << RDiv(v[1], s), RDiv(v[2], s), RDiv(v[3], s) >>
Vector3_dot(v, w) == RSum(<< P2(v[1], w[1]), P2(v[2], w[2]), P2(v[3], w[3]) >>)
Vector3_cross(v, w) ==
    << RSub(RMul(v[2], w[3]), RMul(v[3], w[2])),
       RSub(RMul(v[3], w[1]), RMul(v[1], w[3])),
       RSub(RMul(v[1], w[2]), RMul(v[2], w[1])) >>
Vector3_length_squared(v) == RSum(<< P2(v[1], v[1]), P2(v[2], v[2]), P2(v[3], v[3]) >>)
Vector3_length(v) == Sqrt(Vector3_length_squared(v))
Vector3_normalize(v) == Vector3_div(v, Vector3_length(v))
\* Point3 - Point3 -> Vector3
Point3_sub(p, q) == << RSub(p[1], q[1]), RSub(p[2], q[2]), RSub(p[3], q[3]) >>

(***************************************************************************)
(* HomogeneousVector (homogen.rs): <<x, y, z, w>>.                         *)
(***************************************************************************)
HomogeneousVector_new(x, y, z, w) == << x, y, z, w >>
\* impl From<Vector3>, From<Point3>, From<Vector2>, From<Point2> for HomogeneousVector
HomogeneousVector_from_vector3(v) == HomogeneousVector_new(v[1], v[2], v[3], Zero)
HomogeneousVector_from_point3(p) == HomogeneousVector_new(p[1], p[2], p[3], One)
HomogeneousVector_from_vector2(v) == HomogeneousVector_new(v[1], v[2], Zero, Zero)
HomogeneousVector_from_point2(p) == HomogeneousVector_new(p[1], p[2], Zero, One)
\* impl TryFrom<HomogeneousVector> for Point2
Point2_try_from(v) ==
    IF RGt(v[4], Zero)
    THEN LET w_inv == RDiv(One, v[4])
         IN  Ok(<< RMul(v[1], w_inv), RMul(v[2], w_inv) >>)
    ELSE Err
\* A faulty conversion (a negative w is accepted), to test C18 against.
Point3_try_from_behind(v) ==
    IF v[4] # Zero
    THEN LET w_inv == RDiv(One, v[4])
         IN  Ok(<< RMul(v[1], w_inv), RMul(v[2], w_inv), RMul(v[3], w_inv) >>)
    ELSE Err
\* impl TryFrom<HomogeneousVector> for Point3
Point3_try_from(v) ==
    IF RGt(v[4], Zero)
    THEN LET w_inv == RDiv(One, v[4])
         IN  Ok(<< RMul(v[1], w_inv), RMul(v[2], w_inv), RMul(v[3], w_inv) >>)
    ELSE Err

(***************************************************************************)
(* Transform3 (transform.rs): [mat, mat_inv], 4x4 matrices as tuples of    *)
(* rows.                                                                   *)
(***************************************************************************)
Transform3_new_raw(mat, mat_inv) == [mat |-> mat, mat_inv |-> mat_inv]

\* A faulty identity (last diagonal entry zero), to test C8 against.
Transform3_identity_flat ==
    LET o == Zero
        l == One
        mat == << << l, o, o, o >>,
                  << o, l, o, o >>,
                  << o, o, l, o >>,
                  << o, o, o, o >> >>
    IN  Transform3_new_raw(mat, mat)

Transform3_identity ==
    LET o == Zero
        l == One
        mat == << << l, o, o, o >>,
                  << o, l, o, o >>,
                  << o, o, l, o >>,
                  << o, o, o, l >> >>
    IN  Transform3_new_raw(mat, mat)

\* A faulty determinant (the last of the 24 products, the diagonal, left out),
\* to test C2 against.
Transform3_mat_determinant_short(m) ==
    LET m11 == m[1][1] m12 == m[1][2] m13 == m[1][3] m14 == m[1][4]
        m21 == m[2][1] m22 == m[2][2] m23 == m[2][3] m24 == m[2][4]
        m31 == m[3][1] m32 == m[3][2] m33 == m[3][3] m34 == m[3][4]
        m41 == m[4][1] m42 == m[4][2] m43 == m[4][3] m44 == m[4][4]
    IN  RSum(<< P4(m14, m23, m32, m41),
               RNeg(P4(m13, m24, m32, m41)),
               RNeg(P4(m14, m22, m33, m41)),
               P4(m12, m24, m33, m41),
               P4(m13, m22, m34, m41),
               RNeg(P4(m12, m23, m34, m41)),
               RNeg(P4(m14, m23, m31, m42)),
               P4(m13, m24, m31, m42),
               P4(m14, m21, m33, m42),
               RNeg(P4(m11, m24, m33, m42)),
               RNeg(P4(m13, m21, m34, m42)),
               P4(m11, m23, m34, m42),
               P4(m14, m22, m31, m43),
               RNeg(P4(m12, m24, m31, m43)),
               RNeg(P4(m14, m21, m32, m43)),
               P4(m11, m24, m32, m43),
               P4(m12, m21, m34, m43),
               RNeg(P4(m11, m22, m34, m43)),
               RNeg(P4(m13, m22, m31, m44)),
               P4(m12, m23, m31, m44),
               P4(m13, m21, m32, m44),
               RNeg(P4(m11, m23, m32, m44)),
               RNeg(P4(m12, m21, m33, m44)) >>)

\* Transform3::mat_determinant: the 24 signed products, in source order.
Transform3_mat_determinant(m) ==
    LET m11 == m[1][1] m12 == m[1][2] m13 == m[1][3] m14 == m[1][4]
        m21 == m[2][1] m22 == m[2][2] m23 == m[2][3] m24 == m[2][4]
        m31 == m[3][1] m32 == m[3][2] m33 == m[3][3] m34 == m[3][4]
        m41 == m[4][1] m42 == m[4][2] m43 == m[4][3] m44 == m[4][4]
    IN  RSum(<< P4(m14, m23, m32, m41),
               RNeg(P4(m13, m24, m32, m41)),
               RNeg(P4(m14, m22, m33, m41)),
               P4(m12, m24, m33, m41),
               P4(m13, m22, m34, m41),
               RNeg(P4(m12, m23, m34, m41)),
               RNeg(P4(m14, m23, m31, m42)),
               P4(m13, m24, m31, m42),
               P4(m14, m21, m33, m42),
               RNeg(P4(m11, m24, m33, m42)),
               RNeg(P4(m13, m21, m34, m42)),
               P4(m11, m23, m34, m42),
               P4(m14, m22, m31, m43),
               RNeg(P4(m12, m24, m31, m43)),
               RNeg(P4(m14, m21, m32, m43)),
               P4(m11, m24, m32, m43),
               P4(m12, m21, m34, m43),
               RNeg(P4(m11, m22, m34, m43)),
               RNeg(P4(m13, m22, m31, m44)),
               P4(m12, m23, m31, m44),
               P4(m13, m21, m32, m44),
               RNeg(P4(m11, m23, m32, m44)),
               RNeg(P4(m12, m21, m33, m44)),
               P4(m11, m22, m33, m44) >>)

\* Transform3::mat_inverse: None when the determinant is zero, otherwise the
\* 16 cofactor expressions of the source, each multiplied by 1 / det.
Transform3_mat_inverse(m) ==
    LET m11 == m[1][1] m12 == m[1][2] m13 == m[1][3] m14 == m[1][4]
        m21 == m[2][1] m22 == m[2][2] m23 == m[2][3] m24 == m[2][4]
        m31 == m[3][1] m32 == m[3][2] m33 == m[3][3] m34 == m[3][4]
        m41 == m[4][1] m42 == m[4][2] m43 == m[4][3] m44 == m[4][4]
        cofactors(inv_det) == <<
            << RMul(inv_det, RSum(<< P3(m23, m34, m42), RNeg(P3(m24, m33, m42)), P3(m24, m32, m43),
                                     RNeg(P3(m22, m34, m43)), RNeg(P3(m23, m32, m44)), P3(m22, m33, m44) >>)),
               RMul(inv_det, RSum(<< P3(m14, m33, m42), RNeg(P3(m13, m34, m42)), RNeg(P3(m14, m32, m43)),
                                     P3(m12, m34, m43), P3(m13, m32, m44), RNeg(P3(m12, m33, m44)) >>)),
               RMul(inv_det, RSum(<< P3(m13, m24, m42), RNeg(P3(m14, m23, m42)), P3(m14, m22, m43),
                                     RNeg(P3(m12, m24, m43)), RNeg(P3(m13, m22, m44)), P3(m12, m23, m44) >>)),
               RMul(inv_det, RSum(<< P3(m14, m23, m32), RNeg(P3(m13, m24, m32)), RNeg(P3(m14, m22, m33)),
                                     P3(m12, m24, m33), P3(m13, m22, m34), RNeg(P3(m12, m23, m34)) >>)) >>,
            << RMul(inv_det, RSum(<< P3(m24, m33, m41), RNeg(P3(m23, m34, m41)), RNeg(P3(m24, m31, m43)),
                                     P3(m21, m34, m43), P3(m23, m31, m44), RNeg(P3(m21, m33, m44)) >>)),
               RMul(inv_det, RSum(<< P3(m13, m34, m41), RNeg(P3(m14, m33, m41)), P3(m14, m31, m43),
                                     RNeg(P3(m11, m34, m43)), RNeg(P3(m13, m31, m44)), P3(m11, m33, m44) >>)),
               RMul(inv_det, RSum(<< P3(m14, m23, m41), RNeg(P3(m13, m24, m41)), RNeg(P3(m14, m21, m43)),
                                     P3(m11, m24, m43), P3(m13, m21, m44), RNeg(P3(m11, m23, m44)) >>)),
               RMul(inv_det, RSum(<< P3(m13, m24, m31), RNeg(P3(m14, m23, m31)), P3(m14, m21, m33),
                                     RNeg(P3(m11, m24, m33)), RNeg(P3(m13, m21, m34)), P3(m11, m23, m34) >>)) >>,
            << RMul(inv_det, RSum(<< P3(m22, m34, m41), RNeg(P3(m24, m32, m41)), P3(m24, m31, m42),
                                     RNeg(P3(m21, m34, m42)), RNeg(P3(m22, m31, m44)), P3(m21, m32, m44) >>)),
               RMul(inv_det, RSum(<< P3(m14, m32, m41), RNeg(P3(m12, m34, m41)), RNeg(P3(m14, m31, m42)),
                                     P3(m11, m34, m42), P3(m12, m31, m44), RNeg(P3(m11, m32, m44)) >>)),
               RMul(inv_det, RSum(<< P3(m12, m24, m41), RNeg(P3(m14, m22, m41)), P3(m14, m21, m42),
                                     RNeg(P3(m11, m24, m42)), RNeg(P3(m12, m21, m44)), P3(m11, m22, m44) >>)),
               RMul(inv_det, RSum(<< P3(m14, m22, m31), RNeg(P3(m12, m24, m31)), RNeg(P3(m14, m21, m32)),
                                     P3(m11, m24, m32), P3(m12, m21, m34), RNeg(P3(m11, m22, m34)) >>)) >>,
            << RMul(inv_det, RSum(<< P3(m23, m32, m41), RNeg(P3(m22, m33, m41)), RNeg(P3(m23, m31, m42)),
                                     P3(m21, m33, m42), P3(m22, m31, m43), RNeg(P3(m21, m32, m43)) >>)),
               RMul(inv_det, RSum(<< P3(m12, m33, m41), RNeg(P3(m13, m32, m41)), P3(m13, m31, m42),
                                     RNeg(P3(m11, m33, m42)), RNeg(P3(m12, m31, m43)), P3(m11, m32, m43) >>)),
               RMul(inv_det, RSum(<< P3(m13, m22, m41), RNeg(P3(m12, m23, m41)), RNeg(P3(m13, m21, m42)),
                                     P3(m11, m23, m42), P3(m12, m21, m43), RNeg(P3(m11, m22, m43)) >>)),
               RMul(inv_det, RSum(<< P3(m12, m23, m31), RNeg(P3(m13, m22, m31)), P3(m13, m21, m32),
                                     RNeg(P3(m11, m23, m32)), RNeg(P3(m12, m21, m33)), P3(m11, m22, m33) >>)) >>
            >>
        inverse(det) == IF det = Zero THEN None ELSE Some(cofactors(RDiv(One, det)))
    IN  inverse(Transform3_mat_determinant(m))

Transform3_mat_transpose(m) ==
    << << m[1][1], m[2][1], m[3][1], m[4][1] >>,
       << m[1][2], m[2][2], m[3][2], m[4][2] >>,
       << m[1][3], m[2][3], m[3][3], m[4][3] >>,
       << m[1][4], m[2][4], m[3][4], m[4][4] >> >>

Transform3_try_new(mat) ==
    LET with(mat_inv) == IF mat_inv = None THEN None
                         ELSE Some(Transform3_new_raw(mat, mat_inv.val))
    IN  with(Transform3_mat_inverse(mat))

\* Transform3::new: try_new(mat).expect(..); a panic is the value Panic.
Transform3_new(mat) ==
    LET expect(r) == IF r = None THEN Panic ELSE r.val
    IN  expect(Transform3_try_new(mat))

\* A faulty translation (the offset in the fourth column), to test C9 against.
Transform3_translation_column(v) ==
    LET o == Zero
        l == One
        x == v[1]
        y == v[2]
        z == v[3]
    IN  Transform3_new_raw(
            << << l, o, o, x >>,
               << o, l, o, y >>,
               << o, o, l, z >>,
               << o, o, o, l >> >>,
            << << l, o, o, RSub(o, x) >>,
               << o, l, o, RSub(o, y) >>,
               << o, o, l, RSub(o, z) >>,
               << o, o, o, l >> >>)

Transform3_translation(v) ==
    LET o == Zero
        l == One
        x == v[1]
        y == v[2]
        z == v[3]
    IN  Transform3_new_raw(
            << << l, o, o, o >>,
               << o, l, o, o >>,
               << o, o, l, o >>,
               << x, y, z, l >> >>,
            << << l, o, o, o >>,
               << o, l, o, o >>,
               << o, o, l, o >>,
               << RSub(o, x), RSub(o, y), RSub(o, z), l >> >>)

Transform3_rotation(axis, theta) ==
    LET o == Zero
        l == One
        two == RAdd(l, l)
        x == axis[1]
        y == axis[2]
        z == axis[3]
        xx == RMul(x, x)
        yy == RMul(y, y)
        zz == RMul(z, z)
        half_theta == AngleHalf(theta)
        rows(sc, ss) == <<
            << RSub(l, RMul(RMul(two, RAdd(yy, zz)), ss)),
               RMul(two, RAdd(P3(x, y, ss), RMul(z, sc))),
               RMul(two, RSub(P3(x, z, ss), RMul(y, sc))), o >>,
            << RMul(two, RSub(P3(x, y, ss), RMul(z, sc))),
               RSub(l, RMul(RMul(two, RAdd(xx, zz)), ss)),
               RMul(two, RAdd(P3(y, z, ss), RMul(x, sc))), o >>,
            << RMul(two, RAdd(P3(x, z, ss), RMul(y, sc))),
               RMul(two, RSub(P3(y, z, ss), RMul(x, sc))),
               RSub(l, RMul(RMul(two, RAdd(xx, yy)), ss)), o >>,
            << o, o, o, l >> >>
        raw(mat) == Transform3_new_raw(mat, Transform3_mat_transpose(mat))
        build(sin, cos) == raw(rows(RMul(sin, cos), RMul(sin, sin)))
    IN  build(Sin(half_theta), Cos(half_theta))

\* x, y, z are the factors of the three Scale arguments (Scale::get).
Transform3_scale(x, y, z) ==
    LET o == Zero
        l == One
    IN  Transform3_new_raw(
            << << x, o, o, o >>,
               << o, y, o, o >>,
               << o, o, z, o >>,
               << o, o, o, l >> >>,
            << << RDiv(l, x), o, o, o >>,
               << o, RDiv(l, y), o, o >>,
               << o, o, RDiv(l, z), o >>,
               << o, o, o, l >> >>)

Transform3_look_to_rh(eye, dir, up) ==
    LET o == Zero
        l == One
        view(f, s, u) == Transform3_new(
            << << s[1], u[1], RNeg(f[1]), o >>,
               << s[2], u[2], RNeg(f[2]), o >>,
               << s[3], u[3], RNeg(f[3]), o >>,
               << RNeg(Vector3_dot(eye, s)), RNeg(Vector3_dot(eye, u)),
                  RNeg(Vector3_dot(eye, f)), l >> >>)
        up_of(f, s) == view(f, s, Vector3_cross(s, f))
        side_of(f) == up_of(f, Vector3_normalize(Vector3_cross(f, up)))
    IN  side_of(Vector3_normalize(dir))

Transform3_look_at_rh(eye, look, up) == Transform3_look_to_rh(eye, Point3_sub(look, eye), up)
Transform3_look_to_lh(eye, dir, up) == Transform3_look_to_rh(eye, Vector3_neg(dir), up)
Transform3_look_at_lh(eye, look, up) == Transform3_look_to_lh(eye, Point3_sub(look, eye), up)

Transform3_perspective_lh(fov_y, aspect_ratio, z_near, z_far) ==
    LET fov == AngleHalf(fov_y)
        o == Zero
        l == One
        project(w, h, r) == Transform3_new(
            << << w, o, o, o >>,
               << o, h, o, o >>,
               << o, o, r, l >>,
               << o, o, RMul(RSub(o, r), z_near), o >> >>)
        width_of(h) == project(RDiv(h, aspect_ratio), h, RDiv(z_far, RSub(z_far, z_near)))
    IN  width_of(RDiv(Cos(fov), Sin(fov)))

Transform3_perspective_rh(fov_y, aspect_ratio, z_near, z_far) ==
    LET fov == AngleHalf(fov_y)
        o == Zero
        l == One
        project(w, h, r) == Transform3_new(
            << << w, o, o, o >>,
               << o, h, o, o >>,
               << o, o, r, RSub(o, l) >>,
               << o, o, RMul(r, z_near), o >> >>)
        width_of(h) == project(RDiv(h, aspect_ratio), h, RDiv(z_far, RSub(z_near, z_far)))
    IN  width_of(RDiv(Cos(fov), Sin(fov)))

Transform3_orthographic_lh(left, right, bottom, top, near, far) ==
    LET l == One
        o == Zero
        project(w, h, r) == Transform3_new(
            << << RAdd(w, w), o, o, o >>,
               << o, RAdd(h, h), o, o >>,
               << o, o, r, o >>,
               << RSub(o, RMul(RAdd(left, right), w)), RSub(o, RMul(RAdd(top, bottom), h)),
                  RSub(o, RMul(r, near)), l >> >>)
    IN  project(RDiv(l, RSub(right, left)), RDiv(l, RSub(top, bottom)), RDiv(l, RSub(far, near)))

Transform3_orthographic_rh(left, right, bottom, top, near, far) ==
    LET l == One
        o == Zero
        project(w, h, r) == Transform3_new(
            << << RAdd(w, w), o, o, o >>,
               << o, RAdd(h, h), o, o >>,
               << o, o, r, o >>,
               << RSub(o, RMul(RAdd(left, right), w)), RSub(o, RMul(RAdd(top, bottom), h)),
                  RMul(r, near), l >> >>)
    IN  project(RDiv(l, RSub(right, left)), RDiv(l, RSub(top, bottom)), RDiv(l, RSub(near, far)))

\* impl Transformation for Transform3
Transformation3_identity == Transform3_translation(Vector3_zero)
\* impl PartialEq for Transform3: only the forward matrices are compared.
Transform3_eq(self, other) == self.mat = other.mat
Transform3_is_identity(t) == t.mat = Transformation3_identity.mat
\* A faulty inverse (mat_inv kept in both places), to test C5 against.
Transform3_inverse_unswapped(t) == Transform3_new_raw(t.mat_inv, t.mat_inv)
Transform3_inverse(t) == Transform3_new_raw(t.mat_inv, t.mat)

\* A faulty point transform (the matrix applied to a column), to test C7 against.
Transform3_transform_point_column(t, p) ==
    LET m == t.mat
        x == RSum(<< P2(p[1], m[1][1]), P2(p[2], m[1][2]), P2(p[3], m[1][3]), m[1][4] >>)
        y == RSum(<< P2(p[1], m[2][1]), P2(p[2], m[2][2]), P2(p[3], m[2][3]), m[2][4] >>)
        z == RSum(<< P2(p[1], m[3][1]), P2(p[2], m[3][2]), P2(p[3], m[3][3]), m[3][4] >>)
        w == RSum(<< P2(p[1], m[4][1]), P2(p[2], m[4][2]), P2(p[3], m[4][3]), m[4][4] >>)
    IN  << x, y, z, w >>

\* impl Transform<Point3> for Transform3
Transform3_transform_point(t, p) ==
    LET m == t.mat
        x == RSum(<< P2(p[1], m[1][1]), P2(p[2], m[2][1]), P2(p[3], m[3][1]), m[4][1] >>)
        y == RSum(<< P2(p[1], m[1][2]), P2(p[2], m[2][2]), P2(p[3], m[3][2]), m[4][2] >>)
        z == RSum(<< P2(p[1], m[1][3]), P2(p[2], m[2][3]), P2(p[3], m[3][3]), m[4][3] >>)
        w == RSum(<< P2(p[1], m[1][4]), P2(p[2], m[2][4]), P2(p[3], m[3][4]), m[4][4] >>)
    IN  HomogeneousVector_new(x, y, z, w)

Transform3_transform_point3(t, p) == Point3_try_from(Transform3_transform_point(t, p))

\* A faulty vector transform (the translation row added), to test C10 against.
Transform3_transform_vector_moved(t, v) ==
    LET m == t.mat
        x == RSum(<< P2(v[1], m[1][1]), P2(v[2], m[2][1]), P2(v[3], m[3][1]), m[4][1] >>)
        y == RSum(<< P2(v[1], m[1][2]), P2(v[2], m[2][2]), P2(v[3], m[3][2]), m[4][2] >>)
        z == RSum(<< P2(v[1], m[1][3]), P2(v[2], m[2][3]), P2(v[3], m[3][3]), m[4][3] >>)
    IN  << x, y, z >>

\* impl Transform<Vector3> for Transform3
Transform3_transform_vector(t, v) ==
    LET m == t.mat
        x == RSum(<< P2(v[1], m[1][1]), P2(v[2], m[2][1]), P2(v[3], m[3][1]) >>)
        y == RSum(<< P2(v[1], m[1][2]), P2(v[2], m[2][2]), P2(v[3], m[3][2]) >>)
        z == RSum(<< P2(v[1], m[1][3]), P2(v[2], m[2][3]), P2(v[3], m[3][3]) >>)
    IN  << x, y, z >>

\* A faulty normal transform (the inverse's translation row added), to test
\* C11 against.
Transform3_transform_normal_moved(t, n) ==
    LET m == t.mat_inv
        x == RSum(<< P2(n[1], m[1][1]), P2(n[2], m[1][2]), P2(n[3], m[1][3]), m[4][1] >>)
        y == RSum(<< P2(n[1], m[2][1]), P2(n[2], m[2][2]), P2(n[3], m[2][3]), m[4][2] >>)
        z == RSum(<< P2(n[1], m[3][1]), P2(n[2], m[3][2]), P2(n[3], m[3][3]), m[4][3] >>)
    IN  << x, y, z >>

\* impl Transform<Vector3<Normal>> for Transform3: the rows of mat_inv are
\* destructured, so component i is n . (row i of mat_inv).
Transform3_transform_normal(t, n) ==
    LET m == t.mat_inv
        x == RSum(<< P2(n[1], m[1][1]), P2(n[2], m[1][2]), P2(n[3], m[1][3]) >>)
        y == RSum(<< P2(n[1], m[2][1]), P2(n[2], m[2][2]), P2(n[3], m[2][3]) >>)
        z == RSum(<< P2(n[1], m[3][1]), P2(n[2], m[3][2]), P2(n[3], m[3][3]) >>)
    IN  << x, y, z >>

(***************************************************************************)
(* Boxes (box.rs), with the componentwise min / max of points (point.rs)   *)
(* over num::min and num::max.                                             *)
(***************************************************************************)
num_min(x, y) == IF RLe(x, y) THEN x ELSE y
num_max(x, y) == IF RLe(y, x) THEN x ELSE y
Point3_new(x, y, z) == << x, y, z >>
Point3_min(p, other) ==
    Point3_new(num_min(p[1], other[1]), num_min(p[2], other[2]), num_min(p[3], other[3]))
Point3_max(p, other) ==
    Point3_new(num_max(p[1], other[1]), num_max(p[2], other[2]), num_max(p[3], other[3]))
Box3_new(min, max) == [min |-> min, max |-> max]
Box3_empty == Box3_new(Vector3_zero, Vector3_zero)

\* The loop of Box3::try_from_points from the i-th point on: the first Err ends
\* the call.
RECURSIVE Box3_try_fold(_, _, _, _)
Box3_try_fold(points, i, min, max) ==
    IF i > Len(points) THEN Ok(Box3_new(min, max))
    ELSE IF points[i].tag = "Err" THEN Err
    ELSE Box3_try_fold(points, i + 1, Point3_min(points[i].val, min), Point3_max(points[i].val, max))

\* A faulty re-fit (points that failed to convert are skipped), to test C15
\* against.
Box3_try_from_points_partial(points) ==
    LET fit(ok) == IF Len(ok) = 0 THEN Ok(Box3_empty)
                   ELSE Box3_try_fold(ok, 2, ok[1].val, ok[1].val)
        IsOk(p) == p.tag = "Ok"
    IN  fit(SelectSeq(points, IsOk))

Box3_try_from_points(points) ==
    IF Len(points) = 0 THEN Ok(Box3_empty)
    ELSE IF points[1].tag = "Err" THEN Err
    ELSE Box3_try_fold(points, 2, points[1].val, points[1].val)

\* Result::ok
Result_ok(r) == IF r.tag = "Ok" THEN Some(r.val) ELSE None

\* A faulty box transform (only min and max are transformed), to test C14
\* against.
Transform3_transform_box_two(t, b) ==
    Result_ok(Box3_try_from_points(<<
        Transform3_transform_point3(t, b.min),
        Transform3_transform_point3(t, b.max) >>))

\* impl Transform<Box3> for Transform3
Transform3_transform_box(t, b) ==
    Result_ok(Box3_try_from_points(<<
        Transform3_transform_point3(t, b.min),
        Transform3_transform_point3(t, Point3_new(b.min[1], b.min[2], b.max[3])),
        Transform3_transform_point3(t, Point3_new(b.min[1], b.max[2], b.min[3])),
        Transform3_transform_point3(t, Point3_new(b.min[1], b.max[2], b.max[3])),
        Transform3_transform_point3(t, Point3_new(b.max[1], b.min[2], b.min[3])),
        Transform3_transform_point3(t, Point3_new(b.max[1], b.min[2], b.max[3])),
        Transform3_transform_point3(t, Point3_new(b.max[1], b.max[2], b.min[3])),
        Transform3_transform_point3(t, b.max) >>))

\* A faulty matrix product (rows of a against rows of b), to test C12 against.
Transform3_matmul_rows(a, b) ==
    [i \in 1..4 |-> [j \in 1..4 |->
        RSum(<< P2(a[i][1], b[j][1]), P2(a[i][2], b[j][2]),
                P2(a[i][3], b[j][3]), P2(a[i][4], b[j][4]) >>)]]

\* A faulty matrix product (columns of a against columns of b), to test C30
\* against.
Transform3_matmul_columns(a, b) ==
    [i \in 1..4 |-> [j \in 1..4 |->
        RSum(<< P2(a[1][i], b[1][j]), P2(a[2][i], b[2][j]),
                P2(a[3][i], b[3][j]), P2(a[4][i], b[4][j]) >>)]]

\* fn matmul inside impl Mul for Transform3
Transform3_matmul(a, b) ==
    [i \in 1..4 |-> [j \in 1..4 |->
        RSum(<< P2(a[i][1], b[1][j]), P2(a[i][2], b[2][j]),
                P2(a[i][3], b[3][j]), P2(a[i][4], b[4][j]) >>)]]

\* A faulty composition (the inverses multiplied in the operands' order), to
\* test C4 against.
Transform3_mul_inverse_in_order(self, rhs) ==
    Transform3_new_raw(Transform3_matmul(self.mat, rhs.mat),
                       Transform3_matmul(self.mat_inv, rhs.mat_inv))

\* A faulty composition (the right operand applied first), to test C26
\* against.
Transform3_mul_right_first(self, rhs) ==
    Transform3_new_raw(Transform3_matmul(rhs.mat, self.mat),
                       Transform3_matmul(self.mat_inv, rhs.mat_inv))

\* impl Mul<Transform3> for Transform3: self * rhs
Transform3_mul(self, rhs) ==
    LET m1 == self.mat
        m1_inv == self.mat_inv
        m2 == rhs.mat
        m2_inv == rhs.mat_inv
        mat == Transform3_matmul(m1, m2)
        mat_inv == Transform3_matmul(m2_inv, m1_inv)
    IN  Transform3_new_raw(mat, mat_inv)

(***************************************************************************)
(* Translation3, Rotation3, Scale (translation.rs, rotation.rs, scale.rs)  *)
(* and their conversion into Transform3.                                   *)
(***************************************************************************)
Translation3_new(x, y, z) == [x |-> x, y |-> y, z |-> z]
Translation3_to_vector(t) == << t.x, t.y, t.z >>
\* impl Transform<Point3> / Transform<Vector3> for Translation3
Translation3_transform_point(t, p) == << RAdd(p[1], t.x), RAdd(p[2], t.y), RAdd(p[3], t.z) >>
Translation3_transform_vector(t, v) == << v[1], v[2], v[3] >>

\* impl Transformation for Translation3, impl Add for Translation3
Translation3_is_identity(t) == t.x = Zero /\ t.y = Zero /\ t.z = Zero
\* A faulty inverse (z is not negated), to test C24 against.
Translation3_inverse_flat(t) == Translation3_new(RNeg(t.x), RNeg(t.y), t.z)
Translation3_inverse(t) == Translation3_new(RNeg(t.x), RNeg(t.y), RNeg(t.z))
Translation3_add(t, rhs) == Translation3_new(RAdd(t.x, rhs.x), RAdd(t.y, rhs.y), RAdd(t.z, rhs.z))

\* Scale (scale.rs), a Scale being its factor: inverse and the point transforms
Scale_inverse(s) == RDiv(One, s)
Scale_transform_point3(s, p) == Point3_new(RMul(p[1], s), RMul(p[2], s), RMul(p[3], s))
Scale_transform_point2(s, p) == << RMul(p[1], s), RMul(p[2], s) >>

Rotation3_new_unchecked(a, i, j, k) == [a |-> a, i |-> i, j |-> j, k |-> k]
Rotation3_vector_part(q) == << q.i, q.j, q.k >>

\* A faulty around_axis (the axis is not normalized), to test C20 against.
Rotation3_around_axis_raw(axis, angle) ==
    LET build(sin, cos) ==
            Rotation3_new_unchecked(RMul(axis[1], sin), RMul(axis[2], sin), RMul(axis[3], sin), cos)
    IN  build(Sin(AngleHalf(angle)), Cos(AngleHalf(angle)))

\* Rotation3::around_axis: the four values go to new_unchecked(a, i, j, k) in
\* the order (axis.x * sin, axis.y * sin, axis.z * sin, cos).
Rotation3_around_axis(axis, angle) ==
    LET build(n, sin, cos) ==
            Rotation3_new_unchecked(RMul(n[1], sin), RMul(n[2], sin), RMul(n[3], sin), cos)
    IN  build(Vector3_normalize(axis), Sin(AngleHalf(angle)), Cos(AngleHalf(angle)))

Rotation3_norm_squared(r) ==
    RSum(<< RMul(r.a, r.a), RMul(r.i, r.i), RMul(r.j, r.j), RMul(r.k, r.k) >>)

\* ApproxEq::approx_eq_eps of the float types: abs(x - other) < eps
approx_eq_eps(x, other, eps) ==
    LET abs(d) == IF RLt(d, Zero) THEN RNeg(d) ELSE d
    IN  RLt(abs(RSub(x, other)), eps)

\* Rotation3::is_normalized, eps = 1e-5
Rotation3_is_normalized(r) == approx_eq_eps(Rotation3_norm_squared(r), One, Q(1, 100000))

\* impl Transformation for Rotation3
Rotation3_identity == Rotation3_new_unchecked(One, Zero, Zero, Zero)
Rotation3_is_identity(r) == r.a = One /\ r.i = Zero /\ r.j = Zero /\ r.k = Zero

\* A faulty composition (the Hamilton product in the other order), to test C21
\* against.
Rotation3_then_reversed(r1, r2) ==
    Rotation3_new_unchecked(
        RSum(<< RMul(r1.a, r2.a), RNeg(RMul(r1.i, r2.i)), RNeg(RMul(r1.j, r2.j)), RNeg(RMul(r1.k, r2.k)) >>),
        RSum(<< RMul(r1.i, r2.a), RMul(r1.a, r2.i), RMul(r1.j, r2.k), RNeg(RMul(r1.k, r2.j)) >>),
        RSum(<< RMul(r1.j, r2.a), RMul(r1.a, r2.j), RMul(r1.k, r2.i), RNeg(RMul(r1.i, r2.k)) >>),
        RSum(<< RMul(r1.k, r2.a), RMul(r1.a, r2.k), RMul(r1.i, r2.j), RNeg(RMul(r1.j, r2.i)) >>))

\* Rotation3::then, r1 = self and r2 = other (both normalized: the
\* debug_assert! of the function).
Rotation3_then(r1, r2) ==
    Rotation3_new_unchecked(
        RSum(<< RMul(r2.a, r1.a), RNeg(RMul(r2.i, r1.i)), RNeg(RMul(r2.j, r1.j)), RNeg(RMul(r2.k, r1.k)) >>),
        RSum(<< RMul(r2.i, r1.a), RMul(r2.a, r1.i), RMul(r2.j, r1.k), RNeg(RMul(r2.k, r1.j)) >>),
        RSum(<< RMul(r2.j, r1.a), RMul(r2.a, r1.j), RMul(r2.k, r1.i), RNeg(RMul(r2.i, r1.k)) >>),
        RSum(<< RMul(r2.k, r1.a), RMul(r2.a, r1.k), RMul(r2.i, r1.j), RNeg(RMul(r2.j, r1.i)) >>))

\* A faulty inverse (the scalar part negated instead of the vector part), to
\* test C22 against.
Rotation3_inverse_scalar(r) == Rotation3_new_unchecked(RNeg(r.a), r.i, r.j, r.k)

\* <Rotation3 as Transformation>::inverse
Rotation3_inverse(r) == Rotation3_new_unchecked(r.a, RNeg(r.i), RNeg(r.j), RNeg(r.k))

\* The NaN of the float types that implement Real: what 0 * (1 / 0) produces,
\* and what every sum and product with it produces.
NaN == << 0, 0 >>
Rotation3_nan == Rotation3_new_unchecked(NaN, NaN, NaN, NaN)

\* Rotation3::add, sub, mul (private helpers)
Rotation3_add(r, other) ==
    Rotation3_new_unchecked(RAdd(r.a, other.a), RAdd(r.i, other.i), RAdd(r.j, other.j), RAdd(r.k, other.k))
Rotation3_sub(r, other) ==
    Rotation3_new_unchecked(RSub(r.a, other.a), RSub(r.i, other.i), RSub(r.j, other.j), RSub(r.k, other.k))
Rotation3_mul(r, factor) ==
    Rotation3_new_unchecked(RMul(r.a, factor), RMul(r.i, factor), RMul(r.j, factor), RMul(r.k, factor))

Rotation3_norm(r) == Sqrt(Rotation3_norm_squared(r))
\* Rotation3::normalize: self.mul(1 / norm).  A zero quaternion has norm 0;
\* 1 / 0 is infinite and each component 0 * infinity is NaN.
Rotation3_normalize(r) ==
    LET scaled(norm) == IF norm = Zero THEN Rotation3_nan ELSE Rotation3_mul(r, RDiv(One, norm))
    IN  scaled(Rotation3_norm(r))

\* ApproxEq::approx_eq, with epsilon() = 1e-6
approx_eq(x, other) == approx_eq_eps(x, other, Q(1, 1000000))

\* Real::acos, on the cosines of the angles a * (pi/2) + b * alpha in [0, pi].
AcosAngles == { << 0, 0 >>, << 0, 1 >>, << 1, -1 >>, << 0, 2 >>, << 1, 0 >>, << 2, -2 >>, << 1, 1 >>, << 2, -1 >>, << 2, 0 >> }
Acos(x) == CHOOSE theta \in AcosAngles : Cos(theta) = x /\ RLe(Zero, Sin(theta))
\* theta * s, for a scalar s that divides the coefficients of theta
AngleTimes(theta, s) == << (theta[1] * s[1]) \div s[2], (theta[2] * s[1]) \div s[2] >>

\* Rotation3::lerp
Rotation3_lerp(r, other, s) ==
    Rotation3_normalize(Rotation3_add(Rotation3_mul(r, RSub(One, s)), Rotation3_mul(other, s)))

\* Rotation3::slerp (both normalized: the debug_assert! of the function)
Rotation3_slerp(r1, other, s) ==
    LET finish(r3, sin, cos) ==
            IF r3 = Rotation3_nan THEN Rotation3_nan
            ELSE Rotation3_add(Rotation3_mul(r1, cos), Rotation3_mul(r3, sin))
        turn(r2, dot, theta) ==
            finish(Rotation3_normalize(Rotation3_sub(r2, Rotation3_mul(r1, dot))), Sin(theta), Cos(theta))
        arc(r2, dot) == turn(r2, dot, AngleTimes(Acos(dot), s))
        clamp(r2, dot) == arc(r2, IF RLe(dot, One) THEN dot ELSE One)
        start(dot) ==
            IF approx_eq(dot, One) THEN Rotation3_lerp(r1, other, s)
            ELSE IF RLt(dot, Zero) THEN clamp(Rotation3_mul(other, RNeg(One)), RNeg(dot))
            ELSE clamp(other, dot)
    IN  start(RSum(<< RMul(r1.a, other.a), RMul(r1.i, other.i), RMul(r1.j, other.j), RMul(r1.k, other.k) >>))

\* A faulty rotation of a point (the cross product is not doubled), to test
\* C25 against.
Rotation3_transform_point_single(r, p) ==
    LET at(cross) ==
            Point3_new(
                RSum(<< p[1], RMul(r.a, cross[1]), RMul(r.j, cross[3]), RNeg(RMul(r.k, cross[2])) >>),
                RSum(<< p[2], RMul(r.a, cross[2]), RMul(r.k, cross[1]), RNeg(RMul(r.i, cross[3])) >>),
                RSum(<< p[3], RMul(r.a, cross[3]), RMul(r.i, cross[2]), RNeg(RMul(r.j, cross[1])) >>))
    IN  at(Vector3_cross(Rotation3_vector_part(r), p))

\* impl Transform<Point3> for Rotation3
Rotation3_transform_point(r, p) ==
    LET two == RAdd(One, One)
        at(cross) ==
            Point3_new(
                RSum(<< p[1], RMul(r.a, cross[1]), RMul(r.j, cross[3]), RNeg(RMul(r.k, cross[2])) >>),
                RSum(<< p[2], RMul(r.a, cross[2]), RMul(r.k, cross[1]), RNeg(RMul(r.i, cross[3])) >>),
                RSum(<< p[3], RMul(r.a, cross[3]), RMul(r.i, cross[2]), RNeg(RMul(r.j, cross[1])) >>))
    IN  at(Vector3_mul(Vector3_cross(Rotation3_vector_part(r), p), two))

\* impl Transform<Box3> for Rotation3
Rotation3_transform_box(r, b) ==
    Box3_new(Rotation3_transform_point(r, b.min), Rotation3_transform_point(r, b.max))

Transform3_from_translation(t) == Transform3_translation(Translation3_to_vector(t))

Transform3_from_rotation(t) ==
    LET v == Rotation3_vector_part(t)
        v2 == Vector3_add(v, v)
        v2i == Vector3_mul(v2, t.i)
        v2j == Vector3_mul(v2, t.j)
        v2a == Vector3_mul(v2, t.a)
        ii == v2i[1]
        ij == v2i[2]
        ik == v2i[3]
        jj == v2j[2]
        jk == v2j[3]
        kk == RMul(t.k, v2[3])
        ai == v2a[1]
        aj == v2a[2]
        ak == v2a[3]
        l == One
        o == Zero
        m11 == RSub(l, RAdd(jj, kk))
        m12 == RAdd(ij, ak)
        m13 == RSub(ik, aj)
        m21 == RSub(ij, ak)
        m22 == RSub(l, RAdd(ii, kk))
        m23 == RAdd(jk, ai)
        m31 == RAdd(ik, aj)
        m32 == RSub(jk, ai)
        m33 == RSub(l, RAdd(ii, jj))
        raw(mat) == Transform3_new_raw(mat, Transform3_mat_transpose(mat))
    IN  raw(<< << m11, m12, m13, o >>,
               << m21, m22, m23, o >>,
               << m31, m32, m33, o >>,
               << o, o, o, l >> >>)

\* t is the factor of the Scale
Transform3_from_scale(t) == Transform3_scale(t, t, t)

(***************************************************************************)
(* Transform2 (transform.rs): [mat, mat_inv], 3x2 matrices as tuples of    *)
(* rows; the third row is the translation.                                 *)
(***************************************************************************)
Transform2_new_raw(mat, mat_inv) == [mat |-> mat, mat_inv |-> mat_inv]

Transform2_identity ==
    LET o == Zero
        l == One
        mat == << << l, o >>,
                  << o, l >>,
                  << o, o >> >>
    IN  Transform2_new_raw(mat, mat)

Transform2_try_new(mat) ==
    LET m11 == mat[1][1] m12 == mat[1][2]
        m21 == mat[2][1] m22 == mat[2][2]
        m31 == mat[3][1] m32 == mat[3][2]
        o == Zero
        mat_inv(inv_det) == <<
            << RMul(inv_det, m22), RMul(inv_det, RSub(o, m12)) >>,
            << RMul(inv_det, RSub(o, m21)), RMul(inv_det, m11) >>,
            << RMul(inv_det, RSub(RMul(m21, m32), RMul(m22, m31))),
               RMul(inv_det, RSub(RMul(m12, m31), RMul(m11, m32))) >> >>
        with(det) == IF det = o THEN None
                     ELSE Some(Transform2_new_raw(mat, mat_inv(RDiv(One, det))))
    IN  with(RSub(RMul(m11, m22), RMul(m21, m12)))

\* A faulty new (the identity in place of the abort), to test C3 against.
Transform2_new_or_identity(mat) ==
    LET recover(r) == IF r = None THEN Transform2_identity ELSE r.val
    IN  recover(Transform2_try_new(mat))

\* Transform2::new: try_new(mat).expect(..)
Transform2_new(mat) ==
    LET expect(r) == IF r = None THEN Panic ELSE r.val
    IN  expect(Transform2_try_new(mat))

Transform2_translation(v) ==
    LET o == Zero
        l == One
        x == v[1]
        y == v[2]
    IN  Transform2_new_raw(
            << << l, o >>, << o, l >>, << x, y >> >>,
            << << l, o >>, << o, l >>, << RSub(o, x), RSub(o, y) >> >>)

Transform2_rotation(theta) ==
    LET o == Zero
        build(c, s) == Transform2_new_raw(
            << << c, s >>, << RSub(o, s), c >>, << o, o >> >>,
            << << c, RSub(o, s) >>, << s, c >>, << o, o >> >>)
    IN  build(Cos(theta), Sin(theta))

\* x, y are the factors of the two Scale arguments (Scale::get).
Transform2_scale(x, y) ==
    LET o == Zero
        l == One
    IN  Transform2_new_raw(
            << << x, o >>, << o, y >>, << o, o >> >>,
            << << RDiv(l, x), o >>, << o, RDiv(l, y) >>, << o, o >> >>)

Transform2_determinant(t) ==
    RSub(RMul(t.mat[1][1], t.mat[2][2]), RMul(t.mat[1][2], t.mat[2][1]))
Transform2_is_invertible(t) == Transform2_determinant(t) # Zero

\* impl Transformation for Transform2
Transformation2_identity == Transform2_translation(Vector2_zero)
Transform2_is_identity(t) == t.mat = Transformation2_identity.mat
Transform2_inverse(t) == Transform2_new_raw(t.mat_inv, t.mat)

\* impl Transform<Point2> for Transform2
Transform2_transform_point(t, p) ==
    LET m11 == t.mat[1][1] m12 == t.mat[1][2]
        m21 == t.mat[2][1] m22 == t.mat[2][2]
        dx == t.mat[3][1] dy == t.mat[3][2]
    IN  << RSum(<< P2(p[1], m11), P2(p[2], m21), dx >>),
           RSum(<< P2(p[1], m12), P2(p[2], m22), dy >>) >>

\* impl Transform<Vector2> for Transform2
Transform2_transform_vector(t, v) ==
    LET m11 == t.mat[1][1] m12 == t.mat[1][2]
        m21 == t.mat[2][1] m22 == t.mat[2][2]
    IN  << RAdd(RMul(v[1], m11), RMul(v[2], m21)),
           RAdd(RMul(v[1], m12), RMul(v[2], m22)) >>

\* impl Transform<Vector2<Normal>> for Transform2
Transform2_transform_normal(t, n) ==
    LET m11 == t.mat_inv[1][1] m21 == t.mat_inv[1][2]
        m12 == t.mat_inv[2][1] m22 == t.mat_inv[2][2]
    IN  << RAdd(RMul(n[1], m11), RMul(n[2], m21)),
           RAdd(RMul(n[1], m12), RMul(n[2], m22)) >>

Point2_new(x, y) == << x, y >>
Point2_min(p, other) == Point2_new(num_min(p[1], other[1]), num_min(p[2], other[2]))
Point2_max(p, other) == Point2_new(num_max(p[1], other[1]), num_max(p[2], other[2]))
Box2_new(min, max) == [min |-> min, max |-> max]
Box2_empty == Box2_new(Vector2_zero, Vector2_zero)

\* The loop of Box2::from_points from the i-th point on.
RECURSIVE Box2_fold(_, _, _, _)
Box2_fold(points, i, min, max) ==
    IF i > Len(points) THEN Box2_new(min, max)
    ELSE Box2_fold(points, i + 1, Point2_min(points[i], min), Point2_max(points[i], max))

Box2_from_points(points) ==
    IF Len(points) = 0 THEN Box2_empty
    ELSE Box2_fold(points, 2, points[1], points[1])

\* A faulty box transform (only min and max are transformed), to test C16
\* against.
Transform2_transform_box_two(t, b) ==
    Box2_from_points(<< Transform2_transform_point(t, b.min),
                        Transform2_transform_point(t, b.max) >>)

\* impl Transform<Box2> for Transform2
Transform2_transform_box(t, b) ==
    Box2_from_points(<<
        Transform2_transform_point(t, b.min),
        Transform2_transform_point(t, b.max),
        Transform2_transform_point(t, Point2_new(b.max[1], b.min[2])),
        Transform2_transform_point(t, Point2_new(b.min[1], b.max[2])) >>)

\* fn matmul inside impl Mul for Transform2
Transform2_matmul(a, b) ==
    LET a11 == a[1][1] a12 == a[1][2]
        a21 == a[2][1] a22 == a[2][2]
        a31 == a[3][1] a32 == a[3][2]
        b11 == b[1][1] b12 == b[1][2]
        b21 == b[2][1] b22 == b[2][2]
        b31 == b[3][1] b32 == b[3][2]
    IN  << << RAdd(RMul(a11, b11), RMul(a12, b21)), RAdd(RMul(a11, b12), RMul(a12, b22)) >>,
           << RAdd(RMul(a21, b11), RMul(a22, b21)), RAdd(RMul(a21, b12), RMul(a22, b22)) >>,
           << RSum(<< P2(a31, b11), P2(a32, b21), b31 >>),
              RSum(<< P2(a31, b12), P2(a32, b22), b32 >>) >> >>

\* A faulty composition (the inverses multiplied in the operands' order), to
\* test C6 against.
Transform2_mul_inverse_in_order(self, rhs) ==
    Transform2_new_raw(Transform2_matmul(self.mat, rhs.mat),
                       Transform2_matmul(self.mat_inv, rhs.mat_inv))

\* impl Mul<Transform2> for Transform2: self * rhs
\* impl PartialEq for Transform2: only the forward matrices are compared.
Transform2_eq(self, other) == self.mat = other.mat
Transform2_mul(self, rhs) ==
    LET m1 == self.mat
        m1_inv == self.mat_inv
        m2 == rhs.mat
        m2_inv == rhs.mat_inv
        mat == Transform2_matmul(m1, m2)
        mat_inv == Transform2_matmul(m2_inv, m1_inv)
    IN  Transform2_new_raw(mat, mat_inv)

(***************************************************************************)
(* Translation2, Rotation2, Scale and their conversion into Transform2.    *)
(***************************************************************************)
Translation2_new(x, y) == [x |-> x, y |-> y]
Translation2_to_vector(t) == << t.x, t.y >>
\* impl Transform<Point2> / Transform<Vector2> for Translation2
Translation2_transform_point(t, p) == << RAdd(p[1], t.x), RAdd(p[2], t.y) >>
Translation2_transform_vector(t, v) == << v[1], v[2] >>

\* impl Transformation for Translation2, impl Add for Translation2
Translation2_is_identity(t) == t.x = Zero /\ t.y = Zero
Translation2_inverse(t) == Translation2_new(RNeg(t.x), RNeg(t.y))
Translation2_add(t, rhs) == Translation2_new(RAdd(t.x, rhs.x), RAdd(t.y, rhs.y))

Rotation2_new(angle) == [angle |-> angle]

\* impl Transform<Point2> for Rotation2
Rotation2_transform_point(r, p) ==
    LET at(sin, cos) ==
            Point2_new(RSub(RMul(p[1], cos), RMul(p[2], sin)),
                       RAdd(RMul(p[2], cos), RMul(p[1], sin)))
    IN  at(Sin(r.angle), Cos(r.angle))

\* impl Transform<Box2> for Rotation2
Rotation2_transform_box(r, b) ==
    Box2_new(Rotation2_transform_point(r, b.min), Rotation2_transform_point(r, b.max))

Transform2_from_translation(t) == Transform2_translation(Translation2_to_vector(t))
Transform2_from_rotation(t) == Transform2_rotation(t.angle)
\* t is the factor of the Scale
Transform2_from_scale(t) == Transform2_scale(t, t)

(***************************************************************************)
(* Inputs.  Integer coordinates are lifted to T by V3 / M4.                *)
(***************************************************************************)
V3(x, y, z) == << R(x), R(y), R(z) >>
M4(m) == [i \in 1..4 |-> [j \in 1..4 |-> R(m[i][j])]]

Coords == -MaxCoord..MaxCoord
\* Points and vectors the transforms are applied to.
Points3 == {V3(a, 1, -1) : a \in Coords} \cup {V3(1, 1, 1)}

\* Translation vectors.
Offsets3 == {V3(1, 2, 3), V3(-1, 0, 2)}
\* Rotation axes: unit length, and not.
UnitAxes3 == {V3(0, 0, 1), << Zero, Q(3, 5), Q(4, 5) >>}
Axes3 == UnitAxes3 \cup {V3(2, 0, 0)}
\* Rotation angles theta (even coefficients, so that theta / 2 is in the table):
\* pi and 2 * alpha.
Thetas == {<< 2, 0 >>, << 0, 2 >>}
\* Scale factors (non-zero: a zero factor is the caller's responsibility).
Factors == {R(2), R(-1), Q(1, 2)}
ScaleTriples == {<< R(2), R(2), R(2) >>, << R(2), R(-1), Q(1, 2) >>}
\* Matrices given to try_new / new: affine, projective, dense, and singular.
InvertibleMats4 ==
    { M4(<< << 2, 0, 0, 0 >>, << 1, 1, 0, 0 >>, << 0, 0, 1, 0 >>, << 1, 2, 3, 1 >> >>),
      M4(<< << 1, 0, 0, 0 >>, << 0, 1, 0, 0 >>, << 0, 0, 1, 1 >>, << 0, 0, -1, 0 >> >>),
      M4(<< << 1, 2, 1, 1 >>, << 2, 1, 3, 1 >>, << 1, 1, 1, 2 >>, << 3, 1, 2, 1 >> >>) }
SingularMats4 ==
    { M4(<< << 1, 0, 0, 0 >>, << 0, 0, 0, 0 >>, << 0, 0, 1, 0 >>, << 0, 0, 0, 1 >> >>),
      M4(<< << 1, 2, 3, 4 >>, << 2, 4, 6, 8 >>, << 0, 1, 0, 1 >>, << 1, 0, 1, 0 >> >>) }
Mats4 == InvertibleMats4 \cup SingularMats4
\* Quaternions (a, i, j, k): unit norm, and not (Rotation3::new_unchecked is public).
UnitQuats ==
    { Rotation3_new_unchecked(Q(1, 2), Q(1, 2), Q(1, 2), Q(1, 2)),
      Rotation3_new_unchecked(Q(4, 5), Zero, Q(3, 5), Zero) }
Quats == UnitQuats \cup {Rotation3_new_unchecked(One, One, Zero, Zero)}
\* Cameras <<eye, dir, up>>: dir and dir x up have rational length.
Cameras ==
    { << V3(1, 2, 3), V3(3, 0, 4), V3(0, 1, 0) >>,
      << V3(1, 0, -1), V3(0, 0, 2), V3(0, 1, 0) >> }
\* Frusta <<fov_y, aspect_ratio, z_near, z_far>>
Frusta == {<< << 0, 2 >>, R(1), R(1), R(2) >>, << << 0, 2 >>, R(2), R(1), R(3) >>}
\* Orthographic volumes <<left, right, bottom, top, near, far>>
Volumes == {<< R(-1), R(1), R(-1), R(1), R(1), R(3) >>,
            << R(0), R(2), R(0), R(1), R(1), R(2) >>}

V2(x, y) == << R(x), R(y) >>
M32(m) == [i \in 1..3 |-> [j \in 1..2 |-> R(m[i][j])]]
Points2 == {V2(a, -1) : a \in Coords} \cup {V2(1, 1)}
Offsets2 == {V2(1, 2), V2(-1, 0)}
\* Rotation2 angles: pi/2, alpha, -alpha.
Angles2 == {<< 1, 0 >>, << 0, 1 >>, << 0, -1 >>}
ScalePairs == {<< R(2), R(2) >>, << R(2), Q(-1, 2) >>}
\* 3x2 matrices given to Transform2::try_new / new.
InvertibleMats2 ==
    { M32(<< << 2, 1 >>, << 1, 1 >>, << 3, -1 >> >>),
      M32(<< << 1, 2 >>, << 3, 4 >>, << 0, 0 >> >>),
      M32(<< << 0, 2 >>, << 3, 0 >>, << 1, 1 >> >>) }
SingularMats2 ==
    { M32(<< << 0, 0 >>, << 0, 1 >>, << 0, 0 >> >>),
      M32(<< << 1, 2 >>, << 2, 4 >>, << 5, 6 >> >>) }
Mats2 == InvertibleMats2 \cup SingularMats2
Operands2 ==
    { Transform2_identity,
      Transform2_translation(V2(1, 2)),
      Transform2_rotation(<< 0, 1 >>),
      Transform2_new(M32(<< << 1, 2 >>, << 3, 4 >>, << 0, 0 >> >>)) }

\* Surface normals handed to the normal transforms.
Normals3 == { V3(0, 0, 1), V3(1, -2, 2) }
Normals2 == { V2(0, 1), V2(2, -1) }

\* Boxes handed to the box transforms: a cube around the origin and a box in
\* front of it.
Boxes3 == { Box3_new(V3(-1, -1, -1), V3(1, 1, 1)), Box3_new(V3(0, -1, 1), V3(MaxCoord, 2, 2)) }

Boxes2 == { Box2_new(V2(-1, -1), V2(1, 1)), Box2_new(V2(0, -1), V2(MaxCoord, 2)) }

\* Homogeneous vectors handed to the conversions to points: built from points
\* (w = 1), from vectors (w = 0), and with other weights.
Weights == { R(2), R(-1), Q(1, 2) }
HVectors3 ==
    { HomogeneousVector_from_point3(p) : p \in Points3 }
        \cup { HomogeneousVector_from_vector3(p) : p \in Points3 }
        \cup { HomogeneousVector_new(p[1], p[2], p[3], w) : p \in Points3, w \in Weights }
HVectors2 ==
    { HomogeneousVector_from_point2(p) : p \in Points2 }
        \cup { HomogeneousVector_from_vector2(p) : p \in Points2 }
        \cup { HomogeneousVector_new(p[1], p[2], Zero, w) : p \in Points2, w \in Weights }

\* Axes (of rational length) and angles (with a half) given to around_axis.
AroundAxes == Axes3 \cup { V3(1, 2, 2) }
AroundAngles == Thetas \cup { << 0, 0 >> }

\* Unit quaternions handed to the calls on Rotation3.
RotQuats == UnitQuats \cup { Rotation3_identity, Rotation3_new_unchecked(Zero, Q(3, 5), Zero, Q(4, 5)) }

\* Pairs of unit quaternions and interpolation parameters handed to slerp:
\* equal, antipodal, and at the angles alpha, 2 * alpha and pi / 2 apart, the
\* parameter dividing the angle between them.
SlerpPairs ==
    LET id == Rotation3_identity
        u == Rotation3_new_unchecked(Q(4, 5), Zero, Q(3, 5), Zero)
    IN  { << id, id >>, << u, u >>, << id, u >>,
          << u, Rotation3_new_unchecked(Q(-4, 5), Zero, Q(-3, 5), Zero) >>,
          << id, Rotation3_new_unchecked(Q(-4, 5), Zero, Q(3, 5), Zero) >>,
          << id, Rotation3_new_unchecked(Q(7, 25), Zero, Q(24, 25), Zero) >>,
          << u, Rotation3_new_unchecked(Zero, One, Zero, Zero) >> }
SlerpParams == { Zero, One, R(2), Q(1, 2) }
SlerpDot(pair) ==
    RSum(<< RMul(pair[1].a, pair[2].a), RMul(pair[1].i, pair[2].i),
            RMul(pair[1].j, pair[2].j), RMul(pair[1].k, pair[2].k) >>)
SlerpInputs ==
    { x \in SlerpPairs \X SlerpParams :
        LET theta == Acos(IF RLt(SlerpDot(x[1]), Zero) THEN RNeg(SlerpDot(x[1])) ELSE SlerpDot(x[1]))
        IN  (theta[1] * x[2][1]) % x[2][2] = 0 /\ (theta[2] * x[2][1]) % x[2][2] = 0 }

\* Right-hand operands of a composition, each built by a constructor call.
Operands3 ==
    { Transform3_identity,
      Transform3_translation(V3(1, 2, 3)),
      Transform3_new(M4(<< << 1, 0, 0, 0 >>, << 0, 1, 0, 0 >>, << 0, 0, 1, 1 >>, << 0, 0, -1, 0 >> >>)) }

\* The transforms t is compared with: the operands, and the transform try_new
\* builds from the matrix of t (a second value with the same forward matrix).
Rebuilt3(a) ==
    LET got(r) == IF r = None THEN {} ELSE {r.val}
    IN  got(Transform3_try_new(a.mat))
Rebuilt2(a) ==
    LET got(r) == IF r = None THEN {} ELSE {r.val}
    IN  got(Transform2_try_new(a.mat))

(***************************************************************************)
(* State: one client of the library.                                       *)
(*   t     the transform value the client holds                            *)
(*   res   the last call: its name, its arguments, what it returned        *)
(*   nops  number of calls made                                            *)
(***************************************************************************)
VARIABLES dim, t, res, nops
vars == << dim, t, res, nops >>

Call(op, args, out) == [op |-> op, args |-> args, out |-> out]
Aborted == res.op = "new" /\ res.out = Panic
\* The client first builds a transform with one constructor call, then composes
\* and applies it (every constructor overwrites t, so a later call adds nothing).
CanConstruct(d) == dim = d /\ nops = 0
\* The calls on the value types (Translation, Rotation, HomogeneousVector); they
\* read no transform, so a client exercising them is modelled as a session of
\* its own: value calls only, from the start.
ValueOps == { "translation_transform_vector", "rotation_transform_box", "point_try_from",
      "around_axis", "is_identity", "is_normalized", "then",
      "rotation_inverse", "slerp", "translation_inverse", "scale_inverse" }
CanCall(d) == dim = d /\ nops >= 1 /\ nops < MaxOps /\ ~Aborted /\ res.op \notin ValueOps
CanUse(d) == dim = d /\ nops < MaxOps /\ (nops = 0 \/ res.op \in ValueOps)

\* A constructor call returning Self (or panicking): the client keeps the value.
Construct(op, args, out) ==
    /\ res' = Call(op, args, out)
    /\ t' = IF out = Panic THEN t ELSE out
    /\ nops' = nops + 1
    /\ UNCHANGED dim

\* A fallible constructor call: the client keeps the transform of Some(_).
TryConstruct(op, args, r) ==
    /\ res' = Call(op, args, r)
    /\ t' = IF r = None THEN t ELSE r.val
    /\ nops' = nops + 1
    /\ UNCHANGED dim

Init ==
    /\ dim \in {2, 3}
    /\ t = IF dim = 2 THEN Transform2_identity ELSE Transform3_identity
    /\ res = Call("identity", << >>, t)
    /\ nops = 0

T3_identity == CanConstruct(3) /\ Construct("identity", << >>, Transform3_identity)
T3_translation == CanConstruct(3) /\ \E v \in Offsets3 :
    Construct("translation", << v >>, Transform3_translation(v))
T3_rotation == CanConstruct(3) /\ \E axis \in Axes3, theta \in Thetas :
    Construct("rotation", << axis, theta >>, Transform3_rotation(axis, theta))
T3_scale == CanConstruct(3) /\ \E s \in ScaleTriples :
    Construct("scale", s, Transform3_scale(s[1], s[2], s[3]))
T3_new == CanConstruct(3) /\ \E m \in Mats4 :
    Construct("new", << m >>, Transform3_new(m))
T3_try_new == CanConstruct(3) /\ \E m \in Mats4 :
    TryConstruct("try_new", << m >>, Transform3_try_new(m))
T3_look_to_rh == CanConstruct(3) /\ \E c \in Cameras :
    Construct("look_to_rh", c, Transform3_look_to_rh(c[1], c[2], c[3]))
T3_look_to_lh == CanConstruct(3) /\ \E c \in Cameras :
    Construct("look_to_lh", c, Transform3_look_to_lh(c[1], c[2], c[3]))
T3_look_at_rh == CanConstruct(3) /\ \E c \in Cameras :
    LET look == Vector3_add(c[1], c[2])
    IN  Construct("look_at_rh", << c[1], look, c[3] >>, Transform3_look_at_rh(c[1], look, c[3]))
T3_look_at_lh == CanConstruct(3) /\ \E c \in Cameras :
    LET look == Vector3_add(c[1], c[2])
    IN  Construct("look_at_lh", << c[1], look, c[3] >>, Transform3_look_at_lh(c[1], look, c[3]))
T3_perspective_lh == CanConstruct(3) /\ \E f \in Frusta :
    Construct("perspective_lh", f, Transform3_perspective_lh(f[1], f[2], f[3], f[4]))
T3_perspective_rh == CanConstruct(3) /\ \E f \in Frusta :
    Construct("perspective_rh", f, Transform3_perspective_rh(f[1], f[2], f[3], f[4]))
T3_orthographic_lh == CanConstruct(3) /\ \E b \in Volumes :
    Construct("orthographic_lh", b, Transform3_orthographic_lh(b[1], b[2], b[3], b[4], b[5], b[6]))
T3_orthographic_rh == CanConstruct(3) /\ \E b \in Volumes :
    Construct("orthographic_rh", b, Transform3_orthographic_rh(b[1], b[2], b[3], b[4], b[5], b[6]))
T3_from_translation == CanConstruct(3) /\ \E v \in Offsets3 :
    LET tr == Translation3_new(v[1], v[2], v[3])
    IN  Construct("from_translation", << tr >>, Transform3_from_translation(tr))
T3_from_rotation == CanConstruct(3) /\ \E q \in Quats :
    Construct("from_rotation", << q >>, Transform3_from_rotation(q))
T3_from_scale == CanConstruct(3) /\ \E s \in Factors :
    Construct("from_scale", << s >>, Transform3_from_scale(s))

\* t = t * c  and  t = c * t
T3_mul == CanCall(3) /\ \E c \in Operands3 :
    Construct("mul", << t, c >>, Transform3_mul(t, c))
T3_mul_left == CanCall(3) /\ \E c \in Operands3 :
    Construct("mul", << c, t >>, Transform3_mul(c, t))
T3_inverse == CanCall(3) /\ Construct("inverse", << t >>, Transform3_inverse(t))

\* Applications leave t alone.
Apply(op, args, out) ==
    /\ res' = Call(op, args, out)
    /\ nops' = nops + 1
    /\ UNCHANGED << dim, t >>
T3_transform_point == CanCall(3) /\ \E p \in Points3 :
    Apply("transform_point", << t, p >>, Transform3_transform_point(t, p))
T3_transform_point3 == CanCall(3) /\ \E p \in Points3 :
    Apply("transform_point3", << t, p >>, Transform3_transform_point3(t, p))
T3_transform_vector == CanCall(3) /\ \E v \in Points3 :
    Apply("transform_vector", << t, v >>, Transform3_transform_vector(t, v))

T3_transform_normal == CanCall(3) /\ \E n \in Normals3 :
    Apply("transform_normal", << t, n >>, Transform3_transform_normal(t, n))

T3_transform_box == CanCall(3) /\ \E b \in Boxes3 :
    Apply("transform_box", << t, b >>, Transform3_transform_box(t, b))

\* The value types applied on their own: Translation3 / Translation2 on a vector.
Translation3_apply_vector == CanUse(3) /\ \E o \in Offsets3, v \in Points3 :
    LET tr == Translation3_new(o[1], o[2], o[3])
    IN  Apply("translation_transform_vector", << tr, v >>, Translation3_transform_vector(tr, v))

\* Rotation3 / Rotation2 on a box.
\* a == b: t against an operand, and a freshly constructed t against the
\* transform rebuilt from its matrix.
T3_eq == CanCall(3) /\ \E c \in Operands3 \cup (IF nops = 1 THEN Rebuilt3(t) ELSE {}) :
    Apply("eq", << t, c >>, Transform3_eq(t, c))
T2_eq == CanCall(2) /\ \E c \in Operands2 \cup (IF nops = 1 THEN Rebuilt2(t) ELSE {}) :
    Apply("eq", << t, c >>, Transform2_eq(t, c))
Rotation3_apply_box == CanUse(3) /\ \E q \in UnitQuats, b \in Boxes3 :
    Apply("rotation_transform_box", << q, b >>, Rotation3_transform_box(q, b))

T2_identity == CanConstruct(2) /\ Construct("identity", << >>, Transform2_identity)
T2_translation == CanConstruct(2) /\ \E v \in Offsets2 :
    Construct("translation", << v >>, Transform2_translation(v))
T2_rotation == CanConstruct(2) /\ \E theta \in Angles2 :
    Construct("rotation", << theta >>, Transform2_rotation(theta))
T2_scale == CanConstruct(2) /\ \E s \in ScalePairs :
    Construct("scale", s, Transform2_scale(s[1], s[2]))
T2_new == CanConstruct(2) /\ \E m \in Mats2 :
    Construct("new", << m >>, Transform2_new(m))
T2_try_new == CanConstruct(2) /\ \E m \in Mats2 :
    TryConstruct("try_new", << m >>, Transform2_try_new(m))
T2_from_translation == CanConstruct(2) /\ \E v \in Offsets2 :
    LET tr == Translation2_new(v[1], v[2])
    IN  Construct("from_translation", << tr >>, Transform2_from_translation(tr))
T2_from_rotation == CanConstruct(2) /\ \E theta \in Angles2 :
    LET r == Rotation2_new(theta)
    IN  Construct("from_rotation", << r >>, Transform2_from_rotation(r))
T2_from_scale == CanConstruct(2) /\ \E s \in Factors :
    Construct("from_scale", << s >>, Transform2_from_scale(s))

T2_mul == CanCall(2) /\ \E c \in Operands2 :
    Construct("mul", << t, c >>, Transform2_mul(t, c))
T2_mul_left == CanCall(2) /\ \E c \in Operands2 :
    Construct("mul", << c, t >>, Transform2_mul(c, t))
T2_inverse == CanCall(2) /\ Construct("inverse", << t >>, Transform2_inverse(t))

T2_transform_point == CanCall(2) /\ \E p \in Points2 :
    Apply("transform_point", << t, p >>, Transform2_transform_point(t, p))
T2_transform_vector == CanCall(2) /\ \E v \in Points2 :
    Apply("transform_vector", << t, v >>, Transform2_transform_vector(t, v))

T2_transform_normal == CanCall(2) /\ \E n \in Normals2 :
    Apply("transform_normal", << t, n >>, Transform2_transform_normal(t, n))

T2_transform_box == CanCall(2) /\ \E b \in Boxes2 :
    Apply("transform_box", << t, b >>, Transform2_transform_box(t, b))

Translation2_apply_vector == CanUse(2) /\ \E o \in Offsets2, v \in Points2 :
    LET tr == Translation2_new(o[1], o[2])
    IN  Apply("translation_transform_vector", << tr, v >>, Translation2_transform_vector(tr, v))

Rotation2_apply_box == CanUse(2) /\ \E theta \in Angles2, b \in Boxes2 :
    LET r == Rotation2_new(theta)
    IN  Apply("rotation_transform_box", << r, b >>, Rotation2_transform_box(r, b))

\* Rotation3::around_axis, and is_identity() / is_normalized() on what it
\* returned.
Rotation3_make_around_axis == CanUse(3) /\ \E axis \in AroundAxes, angle \in AroundAngles :
    Apply("around_axis", << axis, angle >>, Rotation3_around_axis(axis, angle))
Rotation3_ask_is_identity == CanUse(3) /\ res.op = "around_axis" /\
    Apply("is_identity", << res.out >>, Rotation3_is_identity(res.out))
Rotation3_ask_is_normalized == CanUse(3) /\ res.op = "around_axis" /\
    Apply("is_normalized", << res.out >>, Rotation3_is_normalized(res.out))

Rotation3_call_then == CanUse(3) /\ \E r1 \in RotQuats, r2 \in RotQuats :
    Apply("then", << r1, r2 >>, Rotation3_then(r1, r2))

Rotation3_call_inverse == CanUse(3) /\ \E q \in RotQuats :
    Apply("rotation_inverse", << q >>, Rotation3_inverse(q))

Rotation3_call_slerp == CanUse(3) /\ \E x \in SlerpInputs :
    Apply("slerp", << x[1][1], x[1][2], x[2] >>, Rotation3_slerp(x[1][1], x[1][2], x[2]))

\* inverse() of a Translation3 / Translation2 / Scale.
Translation3_call_inverse == CanUse(3) /\ \E o \in Offsets3 :
    LET tr == Translation3_new(o[1], o[2], o[3])
    IN  Apply("translation_inverse", << tr >>, Translation3_inverse(tr))
Translation2_call_inverse == CanUse(2) /\ \E o \in Offsets2 :
    LET tr == Translation2_new(o[1], o[2])
    IN  Apply("translation_inverse", << tr >>, Translation2_inverse(tr))
Scale_call_inverse == (CanUse(2) \/ CanUse(3)) /\ \E s \in Factors :
    Apply("scale_inverse", << s >>, Scale_inverse(s))

\* HomogeneousVector converted to a point.
Point3_from_homogeneous == CanUse(3) /\ \E v \in HVectors3 :
    Apply("point_try_from", << v >>, Point3_try_from(v))
Point2_from_homogeneous == CanUse(2) /\ \E v \in HVectors2 :
    Apply("point_try_from", << v >>, Point2_try_from(v))

Next ==
    \/ T3_identity \/ T3_translation \/ T3_rotation \/ T3_scale
    \/ T3_new \/ T3_try_new
    \/ T3_look_to_rh \/ T3_look_to_lh \/ T3_look_at_rh \/ T3_look_at_lh
    \/ T3_perspective_lh \/ T3_perspective_rh
    \/ T3_orthographic_lh \/ T3_orthographic_rh
    \/ T3_from_translation \/ T3_from_rotation \/ T3_from_scale
    \/ T3_mul \/ T3_mul_left \/ T3_inverse
    \/ T3_transform_point \/ T3_transform_point3 \/ T3_transform_vector
    \/ T3_transform_normal \/ T3_transform_box
    \/ T2_identity \/ T2_translation \/ T2_rotation \/ T2_scale
    \/ T2_new \/ T2_try_new
    \/ T2_from_translation \/ T2_from_rotation \/ T2_from_scale
    \/ T2_mul \/ T2_mul_left \/ T2_inverse
    \/ T2_transform_point \/ T2_transform_vector \/ T2_transform_normal
    \/ T2_transform_box
    \/ Translation3_apply_vector \/ Translation2_apply_vector
    \/ Rotation3_apply_box \/ Rotation2_apply_box
    \/ Point3_from_homogeneous \/ Point2_from_homogeneous
    \/ Rotation3_make_around_axis \/ Rotation3_ask_is_identity \/ Rotation3_ask_is_normalized
    \/ Rotation3_call_then \/ Rotation3_call_inverse
    \/ Rotation3_call_slerp
    \/ Translation3_call_inverse \/ Translation2_call_inverse \/ Scale_call_inverse
    \/ T3_eq \/ T2_eq

Spec == Init /\ [][Next]_vars

(***************************************************************************)
(* Matrix algebra used to state the properties, written independently of   *)
(* the matrix code of the library.                                         *)
(***************************************************************************)
RECURSIVE DotFrom(_, _, _, _, _)
DotFrom(a, b, i, j, k) ==
    IF k = 0 THEN Zero ELSE RAdd(DotFrom(a, b, i, j, k - 1), RMul(a[i][k], b[k][j]))
\* The product of two n x n matrices.
MatProd(a, b) == [i \in 1..Len(a) |-> [j \in 1..Len(a) |-> DotFrom(a, b, i, j, Len(a))]]
IdentityMat(n) == [i \in 1..n |-> [j \in 1..n |-> IF i = j THEN One ELSE Zero]]
\* The 3 x 3 homogeneous matrix a 3 x 2 affine matrix stands for.
Homogeneous2(m) == [i \in 1..3 |-> [j \in 1..3 |->
                       IF j <= 2 THEN m[i][j] ELSE IF i = 3 THEN One ELSE Zero]]
\* The matrix of a transform of either dimension, as a square matrix.
Square(m) == IF Len(m[1]) = 2 THEN Homogeneous2(m) ELSE m
\* mat x mat_inv = identity
IsInversePair(x) == MatProd(Square(x.mat), Square(x.mat_inv)) = IdentityMat(Len(x.mat))
\* Determinant by expansion along the first row (Leibniz for 2 x 2).
Det2(a, b, c, d) == RSub(RMul(a, d), RMul(b, c))
Det3(m, r, c) ==
    RSum(<< RMul(m[r[1]][c[1]], Det2(m[r[2]][c[2]], m[r[2]][c[3]], m[r[3]][c[2]], m[r[3]][c[3]])),
            RNeg(RMul(m[r[1]][c[2]], Det2(m[r[2]][c[1]], m[r[2]][c[3]], m[r[3]][c[1]], m[r[3]][c[3]]))),
            RMul(m[r[1]][c[3]], Det2(m[r[2]][c[1]], m[r[2]][c[2]], m[r[3]][c[1]], m[r[3]][c[2]])) >>)
Det4(m) ==
    RSum(<< RMul(m[1][1], Det3(m, << 2, 3, 4 >>, << 2, 3, 4 >>)),
            RNeg(RMul(m[1][2], Det3(m, << 2, 3, 4 >>, << 1, 3, 4 >>))),
            RMul(m[1][3], Det3(m, << 2, 3, 4 >>, << 1, 2, 4 >>)),
            RNeg(RMul(m[1][4], Det3(m, << 2, 3, 4 >>, << 1, 2, 3 >>))) >>)
\* The determinant the constructors test: the 2 x 2 linear part of a 3 x 2
\* matrix, the whole of a 4 x 4 matrix.
Det(m) == IF Len(m[1]) = 2 THEN Det2(m[1][1], m[1][2], m[2][1], m[2][2]) ELSE Det4(m)

\* The calls that construct a transform from arguments.
ConstructorOps ==
    { "identity", "translation", "rotation", "scale", "new", "try_new",
      "look_to_rh", "look_to_lh", "look_at_rh", "look_at_lh",
      "perspective_lh", "perspective_rh", "orthographic_lh", "orthographic_rh",
      "from_translation", "from_rotation", "from_scale" }
\* The last call was a constructor call and returned a transform.
Constructed == res.op \in ConstructorOps /\ res.out # Panic /\ res.out # None
\* The transform the last constructor call returned.
Built == IF res.op = "try_new" THEN res.out.val ELSE res.out
TryNewOf(mat) == IF dim = 2 THEN Transform2_try_new(mat) ELSE Transform3_try_new(mat)

\* C1: every transform a public constructor returns has mat x mat_inv =
\* identity, for all the arguments the constructor accepts, a non-unit
\* rotation axis and a non-unit quaternion included.
C1_ConstructorsReturnInversePair == Constructed => IsInversePair(Built)

\* C2: try_new(mat) returns None if and only if the determinant of mat (of
\* its 2 x 2 linear part for Transform2, of all of it for Transform3) is zero;
\* otherwise it returns Some(t) with t.mat = mat and t.mat x t.mat_inv =
\* identity.
C2_TryNewNoneIffSingular ==
    res.op = "try_new" =>
        /\ (res.out = None) <=> (Det(res.args[1]) = Zero)
        /\ res.out # None => /\ res.out.val.mat = res.args[1]
                             /\ IsInversePair(res.out.val)
\* try_new has refused a singular matrix none of whose rows is zero, in 3D.
C2_Witness ==
    /\ dim = 3
    /\ res.op = "try_new"
    /\ res.out = None
    /\ \A i \in 1..4 : \E j \in 1..4 : res.args[1][i][j] # Zero

\* C3: new(mat) aborts exactly when try_new(mat) returns None, and otherwise
\* returns the value try_new(mat) returns inside Some.
C3_NewAbortsIffTryNewNone ==
    res.op = "new" =>
        /\ (res.out = Panic) <=> (TryNewOf(res.args[1]) = None)
        /\ TryNewOf(res.args[1]) # None => res.out = TryNewOf(res.args[1]).val
\* new has aborted on a singular 3 x 2 matrix.
C3_Witness == dim = 2 /\ res.op = "new" /\ res.out = Panic /\ Det(res.args[1]) = Zero

\* The operations on the transform of the run's dimension.
MulOf(a, b) == IF dim = 2 THEN Transform2_mul(a, b) ELSE Transform3_mul(a, b)
InverseOf(x) == IF dim = 2 THEN Transform2_inverse(x) ELSE Transform3_inverse(x)
\* The product of the matrices of two transforms, as the matrix of a transform.
Unsquare(m) == IF dim = 2 THEN [i \in 1..3 |-> [j \in 1..2 |-> m[i][j]]] ELSE m
ProdOf(a, b) == Unsquare(MatProd(Square(a), Square(b)))

\* C4: composition and inversion preserve the pair.  A * B has the product
\* of the operands' mat in order as its mat and the product of their mat_inv
\* in reverse order as its mat_inv; when mat x mat_inv = identity holds of
\* the operands of a Mul or of an inverse() it holds of the result, and so
\* after every sequence of them.
C4_MulAndInversePreservePair ==
    /\ res.op = "mul" =>
           /\ res.out.mat = ProdOf(res.args[1].mat, res.args[2].mat)
           /\ res.out.mat_inv = ProdOf(res.args[2].mat_inv, res.args[1].mat_inv)
           /\ (IsInversePair(res.args[1]) /\ IsInversePair(res.args[2]))
                  => IsInversePair(res.out)
    /\ res.op = "inverse" => (IsInversePair(res.args[1]) => IsInversePair(res.out))
\* A second composition in a row, of operands that do not commute, each with
\* mat x mat_inv = identity.
C4_Witness ==
    /\ res.op = "mul"
    /\ nops >= 3
    /\ IsInversePair(res.args[1])
    /\ IsInversePair(res.args[2])
    /\ MulOf(res.args[1], res.args[2]) # MulOf(res.args[2], res.args[1])

\* C5: t.inverse() has t.mat_inv as its mat and t.mat as its mat_inv, so
\* t.inverse().inverse() has exactly the mat and the mat_inv of t.
C5_InverseSwapsPair ==
    res.op = "inverse" =>
        /\ res.out.mat = res.args[1].mat_inv
        /\ res.out.mat_inv = res.args[1].mat
        /\ InverseOf(res.out) = res.args[1]
\* inverse() has been called on a transform whose two matrices differ.
C5_Witness == res.op = "inverse" /\ res.args[1].mat # res.args[1].mat_inv

\* C6: (A * B).inverse() = B.inverse() * A.inverse(), in both matrices.
C6_InverseOfProduct ==
    res.op = "mul" =>
        InverseOf(res.out) = MulOf(InverseOf(res.args[2]), InverseOf(res.args[1]))
\* A product of two operands that do not commute, in 2D.
C6_Witness ==
    /\ dim = 2
    /\ res.op = "mul"
    /\ MulOf(res.args[1], res.args[2]) # MulOf(res.args[2], res.args[1])

\* An affine 4 x 4 matrix: fourth column (0, 0, 0, 1).
IsAffine3(m) == << m[1][4], m[2][4], m[3][4], m[4][4] >> = << Zero, Zero, Zero, One >>
\* t is the transform try_new builds from its matrix.
BuiltWithTryNew3(x) == Transform3_try_new(x.mat) = Some(x)

\* C7: round trip.  For an invertible affine Transform3 t built with try_new
\* and a point p, t.inverse() applied to the Point3 that t.transform(p)
\* converts to gives p, with w = 1.
C7_RoundTrip ==
    (/\ dim = 3
     /\ res.op = "transform_point3"
     /\ IsAffine3(res.args[1].mat)
     /\ BuiltWithTryNew3(res.args[1]))
    => /\ res.out # Err
       /\ Transform3_transform_point(Transform3_inverse(res.args[1]), res.out.val)
              = HomogeneousVector_new(res.args[2][1], res.args[2][2], res.args[2][3], One)
\* A point has been moved by an affine transform built with try_new.
C7_Witness ==
    /\ dim = 3
    /\ res.op = "transform_point3"
    /\ IsAffine3(res.args[1].mat)
    /\ BuiltWithTryNew3(res.args[1])
    /\ res.out # Err
    /\ res.out.val # res.args[2]

\* C8: identity laws.  t * Transform3::identity() and
\* Transform3::identity() * t have exactly the mat of t, and its mat_inv.
C8_IdentityLaws ==
    (dim = 3 /\ res.op = "mul") =>
        /\ res.args[2] = Transform3_identity => res.out = res.args[1]
        /\ res.args[1] = Transform3_identity => res.out = res.args[2]
\* The translation by (1, 2, 3) has been composed with the identity on its
\* right.
C8_Witness ==
    /\ dim = 3
    /\ res.op = "mul"
    /\ res.args[1] = Transform3_translation(V3(1, 2, 3))
    /\ res.args[2] = Transform3_identity

\* C9: Transform3::translation(v) applied to a point p gives the homogeneous
\* vector (p.x + v.x, p.y + v.y, p.z + v.z, 1), which converts to Ok(p + v);
\* the translation by (1, 2, 3) sends (1, 1, 1) to (2, 3, 4).
C9_TranslationMovesPoint ==
    \A v \in Offsets3 :
        (dim = 3 /\ res.op \in {"transform_point", "transform_point3"}
                 /\ res.args[1] = Transform3_translation(v)) =>
            /\ res.op = "transform_point" =>
                   res.out = HomogeneousVector_new(RAdd(res.args[2][1], v[1]),
                                                   RAdd(res.args[2][2], v[2]),
                                                   RAdd(res.args[2][3], v[3]), One)
            /\ res.op = "transform_point3" =>
                   res.out = Ok(Vector3_add(res.args[2], v))
            /\ (res.op = "transform_point3" /\ v = V3(1, 2, 3) /\ res.args[2] = V3(1, 1, 1))
                   => res.out = Ok(V3(2, 3, 4))
\* The translation by (1, 2, 3) has been applied to the point (1, 1, 1).
C9_Witness ==
    /\ dim = 3
    /\ res.op = "transform_point3"
    /\ res.args[1] = Transform3_translation(V3(1, 2, 3))
    /\ res.args[2] = V3(1, 1, 1)

\* C10: a pure translation leaves a vector unchanged:
\* Transform3::translation(v), Transform2::translation(v), Translation3 and
\* Translation2 applied to a vector w return w.
C10_TranslationKeepsVector ==
    /\ res.op = "translation_transform_vector" => res.out = res.args[2]
    /\ (dim = 3 /\ res.op = "transform_vector"
                /\ \E v \in Offsets3 : res.args[1] = Transform3_translation(v))
           => res.out = res.args[2]
    /\ (dim = 2 /\ res.op = "transform_vector"
                /\ \E v \in Offsets2 : res.args[1] = Transform2_translation(v))
           => res.out = res.args[2]
\* The translation by (1, 2, 3) has been applied to a vector.
C10_Witness ==
    /\ dim = 3
    /\ res.op = "transform_vector"
    /\ res.args[1] = Transform3_translation(V3(1, 2, 3))
    /\ res.args[2] # Vector3_zero

\* C11: a pure translation leaves a surface normal unchanged:
\* Transform3::translation(v) applied to a normal n returns n.
C11_TranslationKeepsNormal ==
    (dim = 3 /\ res.op = "transform_normal"
             /\ \E v \in Offsets3 : res.args[1] = Transform3_translation(v))
        => res.out = res.args[2]
\* The translation by (1, 2, 3) has been applied to the normal (1, -2, 2).
C11_Witness ==
    /\ dim = 3
    /\ res.op = "transform_normal"
    /\ res.args[1] = Transform3_translation(V3(1, 2, 3))
    /\ res.args[2] = V3(1, -2, 2)
    /\ res.out = V3(1, -2, 2)

\* The offset of a transform that is a pure translation (row 4 of mat), and the
\* test that it is one.
OffsetOf3(x) == << x.mat[4][1], x.mat[4][2], x.mat[4][3] >>
IsTranslation3(x) == x = Transform3_translation(OffsetOf3(x))

\* C12: composition of translations is additive:
\* Transform3::translation(u) * Transform3::translation(v) equals
\* Transform3::translation(u + v), cached inverse included (the translation by
\* -(u + v)); translation (1, 2, 3) composed with itself is translation
\* (2, 4, 6).
C12_TranslationsAdd ==
    (dim = 3 /\ res.op = "mul" /\ IsTranslation3(res.args[1]) /\ IsTranslation3(res.args[2])) =>
        LET sum == Vector3_add(OffsetOf3(res.args[1]), OffsetOf3(res.args[2]))
        IN  /\ res.out = Transform3_translation(sum)
            /\ res.out.mat_inv = Transform3_translation(Vector3_neg(sum)).mat
            /\ (res.args[1] = Transform3_translation(V3(1, 2, 3)) /\ res.args[2] = res.args[1])
                   => res.out = Transform3_translation(V3(2, 4, 6))
\* The translation by (1, 2, 3) has been composed with itself.
C12_Witness ==
    /\ dim = 3
    /\ res.op = "mul"
    /\ res.args[1] = Transform3_translation(V3(1, 2, 3))
    /\ res.args[2] = Transform3_translation(V3(1, 2, 3))
    /\ res.out = Transform3_translation(V3(2, 4, 6))

\* The transpose of the d x d linear block of a matrix, a row vector times a
\* square matrix, and the dot product of two vectors of one length.
LinearBlockT(m, d) == [i \in 1..d |-> [j \in 1..d |-> m[j][i]]]
RowTimes(n, m) == [j \in 1..Len(n) |-> RSum([i \in 1..Len(n) |-> RMul(n[i], m[i][j])])]
Dot(a, b) == RSum([i \in 1..Len(a) |-> RMul(a[i], b[i])])
TransformVectorOf(x, v) ==
    IF dim = 2 THEN Transform2_transform_vector(x, v) ELSE Transform3_transform_vector(x, v)

\* C13: the inverse-transpose rule.  For every Transform2 / Transform3 t and
\* normal n, t.transform(n) is n times (row-vector convention) the transpose
\* of the linear block of t.mat_inv; and for every vector v,
\* dot(t.transform(n), t.transform(v)) = dot(n, v).
C13_NormalInverseTranspose ==
    res.op = "transform_normal" =>
        /\ res.out = RowTimes(res.args[2], LinearBlockT(res.args[1].mat_inv, dim))
        /\ \A v \in (IF dim = 2 THEN Points2 ELSE Points3) :
               Dot(res.out, TransformVectorOf(res.args[1], v)) = Dot(res.args[2], v)
\* The part of C13 the transforms satisfy: the normal is multiplied by the
\* transpose of the linear block of the cached inverse.
C13_NormalUsesInverseTranspose ==
    res.op = "transform_normal" =>
        res.out = RowTimes(res.args[2], LinearBlockT(res.args[1].mat_inv, dim))

\* The 8 corners of a box, the homogeneous images of its corners under a
\* Transform3, and the points they stand for when every w is positive.
Corners3(b) ==
    { << x, y, z >> : x \in { b.min[1], b.max[1] }, y \in { b.min[2], b.max[2] },
                      z \in { b.min[3], b.max[3] } }
CornerImages3(x, b) == { Transform3_transform_point(x, c) : c \in Corners3(b) }
CornerPoints3(x, b) ==
    { << RDiv(h[1], h[4]), RDiv(h[2], h[4]), RDiv(h[3], h[4]) >> : h \in CornerImages3(x, b) }
\* The least and the greatest of a non-empty finite set of scalars.
Least(s) == CHOOSE x \in s : \A y \in s : RLe(x, y)
Greatest(s) == CHOOSE x \in s : \A y \in s : RLe(y, x)
AllInFront3(x, b) == \A h \in CornerImages3(x, b) : RGt(h[4], Zero)

\* C14: a Transform3 applied to a Box3 whose 8 corners all map to w > 0
\* returns Some(box), box being the tight axis-aligned bound of the 8
\* transformed corners: on each axis box.min is the least and box.max the
\* greatest of their coordinates.
C14_Box3TightBound ==
    (dim = 3 /\ res.op = "transform_box" /\ AllInFront3(res.args[1], res.args[2])) =>
        /\ res.out # None
        /\ \A i \in 1..3 :
               LET coords == { p[i] : p \in CornerPoints3(res.args[1], res.args[2]) }
               IN  /\ res.out.val.min[i] = Least(coords)
                   /\ res.out.val.max[i] = Greatest(coords)
                   /\ RLe(res.out.val.min[i], res.out.val.max[i])
\* A projective transform has been applied to a box in front of it, and the
\* bound on the first axis is attained by other corners than min and max.
C14_Witness ==
    /\ dim = 3
    /\ res.op = "transform_box"
    /\ ~IsAffine3(res.args[1].mat)
    /\ AllInFront3(res.args[1], res.args[2])
    /\ res.out # None
    /\ res.out # Transform3_transform_box_two(res.args[1], res.args[2])

\* C15: a Transform3 applied to a Box3 returns None whenever at least one of
\* the 8 transformed corners has w <= 0, whichever corner it is; a box is
\* returned only for 8 corners in front.
C15_Box3NoneBehind ==
    (dim = 3 /\ res.op = "transform_box") =>
        /\ ~AllInFront3(res.args[1], res.args[2]) => res.out = None
        /\ res.out # None => AllInFront3(res.args[1], res.args[2])
\* A box transform returned None although the first corner handed to
\* try_from_points (min) maps to w > 0.
C15_Witness ==
    /\ dim = 3
    /\ res.op = "transform_box"
    /\ RGt(Transform3_transform_point(res.args[1], res.args[2].min)[4], Zero)
    /\ ~AllInFront3(res.args[1], res.args[2])
    /\ res.out = None

\* The 4 corners of a Box2 and their images under a Transform2.
Corners2(b) == { << x, y >> : x \in { b.min[1], b.max[1] }, y \in { b.min[2], b.max[2] } }
CornerPoints2(x, b) == { Transform2_transform_point(x, c) : c \in Corners2(b) }

\* C16: a Transform2 applied to a Box2 returns the tight axis-aligned bounding
\* box of the 4 transformed corners: on each axis min is the least and max the
\* greatest of their coordinates, so min <= max and every transformed corner
\* lies between them, also when the transform swaps which corner is extremal.
C16_Box2TightBound ==
    (dim = 2 /\ res.op = "transform_box") =>
        \A i \in 1..2 :
            LET coords == { p[i] : p \in CornerPoints2(res.args[1], res.args[2]) }
            IN  /\ res.out.min[i] = Least(coords)
                /\ res.out.max[i] = Greatest(coords)
                /\ RLe(res.out.min[i], res.out.max[i])
                /\ \A c \in coords : RLe(res.out.min[i], c) /\ RLe(c, res.out.max[i])
\* A transform has been applied to a box whose bound is attained by another
\* corner than the images of min and max (a rotation by alpha does that).
C16_Witness ==
    /\ dim = 2
    /\ res.op = "transform_box"
    /\ res.args[1] = Transform2_rotation(<< 0, 1 >>)
    /\ \E i \in 1..2 :
           /\ res.out.min[i] # Transform2_transform_point(res.args[1], res.args[2].min)[i]
           /\ res.out.min[i] # Transform2_transform_point(res.args[1], res.args[2].max)[i]

\* The images of the corners of a box under a pure rotation.
RotatedCorners(r, b) ==
    IF dim = 2 THEN { Rotation2_transform_point(r, c) : c \in Corners2(b) }
    ELSE { Rotation3_transform_point(r, c) : c \in Corners3(b) }

\* C17: a box transformed by a pure rotation bounds every transformed corner
\* and is the least such axis-aligned box: for a Rotation3 (Rotation2) r and a
\* box b with b.min <= b.max, r.transform(b) has min <= max on every axis and
\* min <= r.transform(c) <= max for each corner c of b, each bound attained.
C17_RotatedBoxTightBound ==
    res.op = "rotation_transform_box" =>
        \A i \in 1..dim :
            LET coords == { p[i] : p \in RotatedCorners(res.args[1], res.args[2]) }
            IN  /\ RLe(res.out.min[i], res.out.max[i])
                /\ \A c \in coords : RLe(res.out.min[i], c) /\ RLe(c, res.out.max[i])
                /\ res.out.min[i] = Least(coords)
                /\ res.out.max[i] = Greatest(coords)

\* C18: a HomogeneousVector (x, y, z, w) converts to a Point3 (Point2) if and
\* only if w > 0, and then to (x/w, y/w, z/w), each component multiplied by
\* 1/w; for w <= 0 the conversion returns Err(()).  A HomogeneousVector built
\* from a Point3 (w = 1) converts back to that point; one built from a
\* Vector3 (w = 0) fails.
C18_HomogeneousToPoint ==
    res.op = "point_try_from" =>
        LET v == res.args[1]
        IN  /\ res.out # Err <=> RGt(v[4], Zero)
            /\ res.out # Err =>
                   /\ res.out.val = [i \in 1..dim |-> RDiv(v[i], v[4])]
                   /\ res.out.val = [i \in 1..dim |-> RMul(v[i], RDiv(One, v[4]))]
            /\ dim = 3 =>
                   \A p \in Points3 :
                       /\ v = HomogeneousVector_from_point3(p) => res.out = Ok(p)
                       /\ v = HomogeneousVector_from_vector3(p) => res.out = Err
            /\ dim = 2 =>
                   \A p \in Points2 :
                       /\ v = HomogeneousVector_from_point2(p) => res.out = Ok(p)
                       /\ v = HomogeneousVector_from_vector2(p) => res.out = Err
\* The homogeneous vector (1, 1, -1, 2) has been converted to the point
\* (1/2, 1/2, -1/2).
C18_Witness ==
    /\ dim = 3
    /\ res.op = "point_try_from"
    /\ res.args[1] = HomogeneousVector_new(One, One, R(-1), R(2))
    /\ res.out = Ok(<< Q(1, 2), Q(1, 2), Q(-1, 2) >>)

\* C19: Rotation3::around_axis(axis, angle) returns the half-angle quaternion
\* whose vector part (i, j, k) is normalize(axis) * sin(angle / 2) and whose
\* scalar part a is cos(angle / 2); around_axis(axis, 0) is the identity
\* rotation (a = 1, i = j = k = 0), and is_identity() holds of it.
C19_AroundAxisHalfAngle ==
    /\ res.op = "around_axis" =>
           LET half == AngleHalf(res.args[2])
           IN  /\ res.out.a = Cos(half)
               /\ Rotation3_vector_part(res.out)
                      = Vector3_mul(Vector3_normalize(res.args[1]), Sin(half))
               /\ res.args[2] = << 0, 0 >> =>
                      /\ res.out = Rotation3_identity
                      /\ Rotation3_is_identity(res.out)
    /\ (res.op = "is_identity"
            /\ \E axis \in AroundAxes : res.args[1] = Rotation3_around_axis(axis, << 0, 0 >>))
           => res.out = TRUE

\* C20: for a nonzero axis, Rotation3::around_axis(axis, angle) has unit norm:
\* its norm_squared a^2 + i^2 + j^2 + k^2 is 1 (within the 1e-5 of
\* is_normalized), and is_normalized() returns true.
C20_AroundAxisUnitNorm ==
    /\ res.op = "around_axis" =>
           /\ Rotation3_norm_squared(res.out) = One
           /\ Rotation3_is_normalized(res.out)
    /\ res.op = "is_normalized" => res.out = TRUE
\* is_normalized() has been asked of around_axis of the axis (2, 0, 0), of
\* length 2, by the angle 2 * alpha.
C20_Witness ==
    /\ res.op = "is_normalized"
    /\ res.args[1] = Rotation3_around_axis(V3(2, 0, 0), << 0, 2 >>)
    /\ res.out = TRUE

\* C21: Rotation3::then composes 'self first, then other': for unit
\* quaternions r1, r2 and every point p, r1.then(&r2).transform(p) equals
\* r2.transform(r1.transform(p)), and r1.then(&r2) has unit norm.
C21_ThenComposesInOrder ==
    res.op = "then" =>
        /\ \A p \in Points3 :
               Rotation3_transform_point(res.out, p)
                   = Rotation3_transform_point(res.args[2], Rotation3_transform_point(res.args[1], p))
        /\ Rotation3_norm_squared(res.out) = One
\* Two rotations that do not commute have been composed.
C21_Witness ==
    /\ res.op = "then"
    /\ res.args[1] = Rotation3_new_unchecked(Q(1, 2), Q(1, 2), Q(1, 2), Q(1, 2))
    /\ res.args[2] = Rotation3_new_unchecked(Q(4, 5), Zero, Q(3, 5), Zero)
    /\ \E p \in Points3 :
           Rotation3_transform_point(res.args[2], Rotation3_transform_point(res.args[1], p))
               # Rotation3_transform_point(res.args[1], Rotation3_transform_point(res.args[2], p))

\* C22: Rotation3::inverse is conjugation (a, -i, -j, -k); for a unit
\* quaternion q, q.then(&q.inverse()) and q.inverse().then(&q) are the
\* identity rotation (1, 0, 0, 0), and q.inverse() applied to q.transform(p)
\* gives p for every point p.
C22_InverseIsConjugate ==
    res.op = "rotation_inverse" =>
        LET q == res.args[1]
        IN  /\ res.out = [a |-> q.a, i |-> RNeg(q.i), j |-> RNeg(q.j), k |-> RNeg(q.k)]
            /\ Rotation3_then(q, res.out) = Rotation3_identity
            /\ Rotation3_then(res.out, q) = Rotation3_identity
            /\ \A p \in Points3 :
                   Rotation3_transform_point(res.out, Rotation3_transform_point(q, p)) = p
\* The quaternion (4/5, 0, 3/5, 0), which moves points, has been inverted.
C22_Witness ==
    /\ res.op = "rotation_inverse"
    /\ res.args[1] = Rotation3_new_unchecked(Q(4, 5), Zero, Q(3, 5), Zero)
    /\ res.out # res.args[1]
    /\ \E p \in Points3 : Rotation3_transform_point(res.args[1], p) # p

\* C23: for unit quaternions q1, q2 (q2 = q1 and q2 = -q1 included),
\* slerp(q1, q2, 0) is q1, slerp(q1, q2, 1) is q2 up to the sign of the
\* quaternion, and for every parameter the result is a well-defined
\* unit-norm quaternion (no division by a zero norm).
C23_SlerpEndpointsAndNorm ==
    res.op = "slerp" =>
        /\ res.out # Rotation3_nan
        /\ Rotation3_norm_squared(res.out) = One
        /\ res.args[3] = Zero => res.out = res.args[1]
        /\ res.args[3] = One =>
               res.out \in { res.args[2], Rotation3_mul(res.args[2], RNeg(One)) }
\* The part of C23 that holds: whenever slerp does not normalize a zero
\* quaternion its result has unit norm and the end points are met.
C23_SlerpAwayFromAntipodal ==
    (res.op = "slerp" /\ res.args[2] # Rotation3_mul(res.args[1], RNeg(One))) =>
        /\ res.out # Rotation3_nan
        /\ Rotation3_norm_squared(res.out) = One
        /\ res.args[3] = Zero => res.out = res.args[1]
        /\ res.args[3] = One =>
               res.out \in { res.args[2], Rotation3_mul(res.args[2], RNeg(One)) }

\* C24: Translation2 / Translation3 invert by negation and Scale by
\* reciprocal, and each inverse undoes the forward map: for a translation t
\* and a point p, t.inverse() applied to t.transform(p) gives p and
\* t + t.inverse() is the identity; for a Scale s with a nonzero factor,
\* s.inverse() applied to s.transform(p) gives p.
C24_InverseUndoes ==
    /\ (dim = 3 /\ res.op = "translation_inverse") =>
           LET tr == res.args[1]
           IN  /\ res.out = [x |-> RNeg(tr.x), y |-> RNeg(tr.y), z |-> RNeg(tr.z)]
               /\ \A p \in Points3 :
                      Translation3_transform_point(res.out, Translation3_transform_point(tr, p)) = p
               /\ Translation3_is_identity(Translation3_add(tr, res.out))
    /\ (dim = 2 /\ res.op = "translation_inverse") =>
           LET tr == res.args[1]
           IN  /\ res.out = [x |-> RNeg(tr.x), y |-> RNeg(tr.y)]
               /\ \A p \in Points2 :
                      Translation2_transform_point(res.out, Translation2_transform_point(tr, p)) = p
               /\ Translation2_is_identity(Translation2_add(tr, res.out))
    /\ res.op = "scale_inverse" =>
           /\ RMul(res.out, res.args[1]) = One
           /\ dim = 3 => \A p \in Points3 :
                  Scale_transform_point3(res.out, Scale_transform_point3(res.args[1], p)) = p
           /\ dim = 2 => \A p \in Points2 :
                  Scale_transform_point2(res.out, Scale_transform_point2(res.args[1], p)) = p
\* The translation by (1, 2, 3) has been inverted.
C24_Witness ==
    /\ dim = 3
    /\ res.op = "translation_inverse"
    /\ res.args[1] = Translation3_new(One, R(2), R(3))
    /\ res.out = Translation3_new(R(-1), R(-2), R(-3))

\* C25: converting a motion into matrix form keeps its action on points.  For
\* a Rotation3 q and a point p, Transform3::from(q).transform(p) has w = 1
\* and the x, y, z of q.transform(p); for a Translation3 t,
\* Transform3::from(t).transform(p) is t.transform(p); for a Rotation2 r,
\* Transform2::from(r).transform(p) is r.transform(p).
C25_FromKeepsAction ==
    /\ (dim = 3 /\ res.op = "transform_point") =>
           /\ \A q \in Quats :
                  res.args[1] = Transform3_from_rotation(q) =>
                      LET moved == Rotation3_transform_point(q, res.args[2])
                      IN  res.out = << moved[1], moved[2], moved[3], One >>
           /\ \A o \in Offsets3 :
                  res.args[1] = Transform3_from_translation(Translation3_new(o[1], o[2], o[3])) =>
                      LET moved == Translation3_transform_point(Translation3_new(o[1], o[2], o[3]), res.args[2])
                      IN  res.out = << moved[1], moved[2], moved[3], One >>
    /\ (dim = 2 /\ res.op = "transform_point") =>
           \A theta \in Angles2 :
               res.args[1] = Transform2_from_rotation(Rotation2_new(theta)) =>
                   res.out = Rotation2_transform_point(Rotation2_new(theta), res.args[2])
\* The matrix form of the quaternion (4/5, 0, 3/5, 0) has moved a point.
C25_Witness ==
    /\ dim = 3
    /\ res.op = "transform_point"
    /\ res.args[1] = Transform3_from_rotation(Rotation3_new_unchecked(Q(4, 5), Zero, Q(3, 5), Zero))
    /\ res.out # << res.args[2][1], res.args[2][2], res.args[2][3], One >>

\* The x, y, z of a homogeneous vector.
Xyz(h) == << h[1], h[2], h[3] >>

\* C26: Mul applies its left operand first.  For Transform3 A, B with affine
\* matrices and every point p, (A * B).transform(p) is B.transform of
\* A.transform(p), with w = 1, and likewise for vectors and for Transform2;
\* Mul is associative, (A * B) * C = A * (B * C), on mat and on mat_inv (in 3D
\* for the products formed by the first three calls of a session).
C26_MulLeftFirstAssociative ==
    /\ (dim = 3 /\ res.op = "mul") =>
           LET a == res.args[1]
               b == res.args[2]
           IN  /\ (IsAffine3(a.mat) /\ IsAffine3(b.mat)) =>
                      /\ \A p \in Points3 :
                             /\ Transform3_transform_point(a, p)[4] = One
                             /\ Transform3_transform_point(res.out, p)
                                    = Transform3_transform_point(b, Xyz(Transform3_transform_point(a, p)))
                      /\ \A v \in Points3 :
                             Transform3_transform_vector(res.out, v)
                                 = Transform3_transform_vector(b, Transform3_transform_vector(a, v))
               /\ nops <= 3 => \A c \in Operands3 :
                      Transform3_mul(res.out, c) = Transform3_mul(a, Transform3_mul(b, c))
    /\ (dim = 2 /\ res.op = "mul") =>
           LET a == res.args[1]
               b == res.args[2]
           IN  /\ \A p \in Points2 :
                      /\ Transform2_transform_point(res.out, p)
                             = Transform2_transform_point(b, Transform2_transform_point(a, p))
                      /\ Transform2_transform_vector(res.out, p)
                             = Transform2_transform_vector(b, Transform2_transform_vector(a, p))
               /\ \A c \in Operands2 :
                      Transform2_mul(res.out, c) = Transform2_mul(a, Transform2_mul(b, c))
\* Two affine transforms that do not commute (a scale and the translation by
\* (1, 2, 3)) have been composed.
C26_Witness ==
    /\ dim = 3
    /\ res.op = "mul"
    /\ IsAffine3(res.args[1].mat)
    /\ IsAffine3(res.args[2].mat)
    /\ Transform3_mul(res.args[1], res.args[2]).mat # Transform3_mul(res.args[2], res.args[1]).mat

\* C27: the view matrix of Transform3::look_to_rh(eye, dir, up), and so of
\* look_at_rh, look_to_lh and look_at_lh, maps the eye to the origin:
\* applied to eye it gives the homogeneous vector (0, 0, 0, 1).
C27_ViewMapsEyeToOrigin ==
    (dim = 3 /\ res.op \in { "look_to_rh", "look_at_rh", "look_to_lh", "look_at_lh" }
             /\ res.out # Panic) =>
        Transform3_transform_point(res.out, res.args[1])
            = HomogeneousVector_new(Zero, Zero, Zero, One)
\* What the view matrix does to the eye: x and y vanish, and z is minus twice
\* the component of the eye along the normalized viewing direction.
C27_ViewMapsEyeAlongAxis ==
    (dim = 3 /\ res.op \in { "look_to_rh", "look_to_lh" } /\ res.out # Panic) =>
        LET f == Vector3_normalize(IF res.op = "look_to_rh" THEN res.args[2]
                                   ELSE Vector3_neg(res.args[2]))
        IN  Transform3_transform_point(res.out, res.args[1])
                = HomogeneousVector_new(Zero, Zero,
                                        RMul(R(-2), Vector3_dot(res.args[1], f)), One)

\* C28: the two ways of building an axis / angle rotation matrix agree: for a
\* unit axis and an angle, Transform3::from(Rotation3::around_axis(axis,
\* angle)) has the mat and the mat_inv of Transform3::rotation(axis, angle).
C28_AxisAngleMatricesAgree ==
    (res.op = "around_axis" /\ Vector3_length_squared(res.args[1]) = One) =>
        Transform3_from_rotation(res.out) = Transform3_rotation(res.args[1], res.args[2])
\* The matrices do agree for the quaternion with a = cos(angle / 2) and
\* (i, j, k) = axis * sin(angle / 2), which around_axis does not return.
C28_AgreeForHalfAngleQuaternion ==
    (res.op = "around_axis" /\ Vector3_length_squared(res.args[1]) = One) =>
        LET half == AngleHalf(res.args[2])
            v == Vector3_mul(res.args[1], Sin(half))
        IN  Transform3_from_rotation(Rotation3_new_unchecked(Cos(half), v[1], v[2], v[3]))
                = Transform3_rotation(res.args[1], res.args[2])

\* C29: == agrees with the inverses: when two transforms compare equal (==
\* looks at the forward matrix only), their inverses compare equal as well,
\* that is, equal forward matrices carry equal cached inverses.
C29_EqualTransformsHaveEqualInverses ==
    (res.op = "eq" /\ res.out) =>
        IF dim = 3
        THEN Transform3_eq(Transform3_inverse(res.args[1]), Transform3_inverse(res.args[2]))
        ELSE Transform2_eq(Transform2_inverse(res.args[1]), Transform2_inverse(res.args[2]))
\* Equal forward matrices do carry equal inverses whenever both cached inverses
\* are the inverse of the forward matrix.
C29_EqualInversePairsHaveEqualInverses ==
    (res.op = "eq" /\ res.out /\ dim = 3
        /\ IsInversePair(res.args[1]) /\ IsInversePair(res.args[2])) =>
        Transform3_eq(Transform3_inverse(res.args[1]), Transform3_inverse(res.args[2]))

\* C30: affine transforms stay affine.  If both operands of a product have the
\* fourth column (0, 0, 0, 1), so has the product; a point transformed by such
\* a transform has w = 1; and such a transform applied to a Box3 returns Some.
C30_AffineStaysAffine ==
    (dim = 3 /\ res.op \in { "mul", "transform_point", "transform_box" }
        /\ IsAffine3(res.args[1].mat)) =>
        /\ (res.op = "mul" /\ IsAffine3(res.args[2].mat)) => IsAffine3(res.out.mat)
        /\ res.op = "transform_point" => res.out[4] = One
        /\ res.op = "transform_box" => res.out # None
\* A rotation composed with a translation is applied to a box.
C30_Witness ==
    /\ dim = 3 /\ nops = 3 /\ res.op = "transform_box"
    /\ res.args[1] = Transform3_mul(Transform3_rotation(V3(0, 0, 1), << 0, 2 >>),
                                    Transform3_translation(V3(1, 2, 3)))
    /\ IsAffine3(res.args[1].mat)
    /\ res.out # None

=============================================================================
